---- MODULE Spec2Model ----
(***************************************************************************)
(* Model of the natural selection game (src/model.py): the per-square      *)
(* survival resolution (SquareModel.determine_survivors) and the board     *)
(* level round cycle (BoardModel: create_animals, set_board,                *)
(* modify_board_survivors, clear_board).                                    *)
(*                                                                         *)
(* Animals are Python objects; list membership (`x in list`) compares them  *)
(* by identity.  The model gives every animal an `id` field standing for    *)
(* that identity: animals handed to a square or created at game start carry *)
(* their position in the list that created them, the two offspring of a     *)
(* parent with id p carry -(2p-1) and -(2p), and clear_board renumbers the  *)
(* pool by position once no other list refers to the animals any more.      *)
(***************************************************************************)
EXTENDS Integers, Sequences, FiniteSets, TLC

VARIABLES
    settings,                    \* CurrentSettings attributes read by the model
    board,                       \* BoardModel.board: position -> SquareModel
    survivors,                   \* BoardModel.survivors: <<predators, prey>>
    current_round,               \* BoardModel.current_round
    round_winner,                \* BoardModel.round_winner ("unset" before the first resolution)
    round_wins,                  \* BoardModel.round_wins
    total_populations,           \* BoardModel.total_populations
    previous_total_populations,  \* BoardModel.previous_total_populations
    average_levels,              \* BoardModel.average_levels, in tenths
    average_hunger_level,        \* BoardModel.average_hunger_level, in tenths
    phase,                       \* position of the caller in the round cycle
    raised,                      \* exception that ended the last call ("none" if it returned)
    returned,                    \* value returned by the last determine_survivors call of the unit harness
    pre_board,                   \* history: the board as it was when the last resolution started
    roll,                        \* inside set_board: the loop, its index and the square last drawn; <<>> outside
    all_settings_dict,           \* CurrentSettings.all_settings_dict: category -> setting -> value
    next_game_command,           \* WidgetCommands.next_game_command ("unset" before it is first assigned)
    timers,                      \* callbacks handed to view.after and not yet run, in the order they fire
    shown,                       \* game control buttons that are gridded
    calls,                       \* history: BoardModel methods the game loop has called on the current model
    rectangular_matrix,          \* argument of the last produce_diagonal_matrix call: a list of columns
    array_of_outcomes            \* argument of the last determine_round_winner call: a list of columns

vars == <<settings, board, survivors, current_round, round_winner, round_wins,
          total_populations, previous_total_populations, average_levels,
          average_hunger_level, phase, raised, returned, pre_board, roll,
          all_settings_dict, next_game_command, timers, shown, calls,
          rectangular_matrix, array_of_outcomes>>

\* the state of the settings dictionary and of the controller's game loop
controller_vars == <<all_settings_dict, next_game_command, timers, shown, calls>>

\* the arguments handed to the functions of src/model_helpers.py
helper_vars == <<rectangular_matrix, array_of_outcomes>>

\* no function of src/model_helpers.py has been called
HelpersIdle ==
    /\ rectangular_matrix = <<>>
    /\ array_of_outcomes = <<>>

\* no settings dictionary is loaded and no controller drives the model
ControllerIdle ==
    /\ all_settings_dict = <<>>
    /\ next_game_command = "unset"
    /\ timers = <<>>
    /\ shown = {}
    /\ calls = <<>>

(***************************************************************************)
(* Bounds of the model and program constants.                              *)
(***************************************************************************)
\* starting skill levels are drawn from 0..MaxLevel
MaxLevel == 2
\* starvation budgets (rounds_until_starvation) are drawn from 1..MaxBudget
MaxBudget == 2
\* board_length is drawn from 1..MaxBoardLength
MaxBoardLength == 2
\* on boards of more than one square each side starts with at most MaxInitial animals
MaxInitial == 1
\* num_rounds is drawn from 1..MaxRounds
MaxRounds == 2
\* a square holds at most 4 predators and 4 prey when it is set (set_board)
SquareCap == 4

PreyWin == 1
PredatorWin == -1
Tie == 0

(***************************************************************************)
(* Animal, PredatorModel, PreyModel                                        *)
(***************************************************************************)
PredatorModel(id, skill_level, birth_round, default_rounds_until_starvation) ==
    [id |-> id, skill_level |-> skill_level, birth_round |-> birth_round,
     rounds_until_starvation |-> default_rounds_until_starvation]

PreyModel(id, skill_level, birth_round) ==
    [id |-> id, skill_level |-> skill_level, birth_round |-> birth_round]

\* Python's `animal in list` on objects without __eq__: identity
In(animal, list) == \E k \in 1..Len(list) : list[k].id = animal.id

NotIn(list, dead) == SelectSeq(list, LAMBDA a : ~In(a, dead))

\* list.sort(key=skill_level): stable, ascending
RECURSIVE SortAscending(_)
SortAscending(list) ==
    IF list = <<>> THEN <<>>
    ELSE LET last == list[Len(list)]
             front == SortAscending(SubSeq(list, 1, Len(list) - 1))
         IN SelectSeq(front, LAMBDA a : a.skill_level <= last.skill_level)
            \o <<last>>
            \o SelectSeq(front, LAMBDA a : a.skill_level > last.skill_level)

\* list.sort(reverse=True, key=skill_level): stable, descending
RECURSIVE SortDescending(_)
SortDescending(list) ==
    IF list = <<>> THEN <<>>
    ELSE LET last == list[Len(list)]
             front == SortDescending(SubSeq(list, 1, Len(list) - 1))
         IN SelectSeq(front, LAMBDA a : a.skill_level >= last.skill_level)
            \o <<last>>
            \o SelectSeq(front, LAMBDA a : a.skill_level < last.skill_level)

(***************************************************************************)
(* SquareModel                                                             *)
(***************************************************************************)
\* `winner` is set by modify_board_survivors only: <<>> until then, <<code>> after
SquareModel(board_position, default_rounds_until_starvation) ==
    [board_position |-> board_position,
     current_round |-> 1,
     default_rounds_until_starvation |-> default_rounds_until_starvation,
     winner |-> <<>>,
     prey |-> <<>>, predators |-> <<>>,
     predator_births |-> <<>>, predator_deaths |-> <<>>,
     prey_births |-> <<>>, prey_deaths |-> <<>>]

\* mutant: the second offspring is always one level below its parent
LowerLevelNoFloor(skill_level) == skill_level - 1

\* skill level of the second offspring: parent - 1, or the parent's when it is 0
LowerLevel(skill_level) ==
    IF skill_level = 0 THEN skill_level ELSE skill_level - 1

\* the precondition record_predator_eating_and_reproducing asserts on its arguments
eating_precondition(parent, eaten) == parent.skill_level >= eaten.skill_level

\* mutant: the offspring inherit what is left of the parent's starvation budget
record_eating_inheriting_budget(sq, parent, eaten) ==
    [sq EXCEPT
        !.predator_deaths = Append(@, parent),
        !.prey_deaths = Append(@, eaten),
        !.predator_births = @ \o
            << PredatorModel(-(2 * parent.id - 1), parent.skill_level + 1,
                             sq.current_round + 1, parent.rounds_until_starvation),
               PredatorModel(-(2 * parent.id), LowerLevel(parent.skill_level),
                             sq.current_round + 1, parent.rounds_until_starvation) >>]

record_predator_eating_and_reproducing(sq, parent, eaten) ==
    [sq EXCEPT
        !.predator_deaths = Append(@, parent),
        !.prey_deaths = Append(@, eaten),
        !.predator_births = @ \o
            << PredatorModel(-(2 * parent.id - 1), parent.skill_level + 1,
                             sq.current_round + 1, sq.default_rounds_until_starvation),
               PredatorModel(-(2 * parent.id), LowerLevel(parent.skill_level),
                             sq.current_round + 1, sq.default_rounds_until_starvation) >>]

record_prey_reproducing(sq, parent) ==
    [sq EXCEPT
        !.prey_deaths = Append(@, parent),
        !.prey_births = @ \o
            << PreyModel(-(2 * parent.id - 1), parent.skill_level + 1, sq.current_round + 1),
               PreyModel(-(2 * parent.id), LowerLevel(parent.skill_level),
                         sq.current_round + 1) >>]

\* mutant: the dead predators are not taken out of the square
enact_changes_keeping_dead_predators(sq) ==
    [sq EXCEPT
        !.predators = sq.predators \o sq.predator_births,
        !.prey = NotIn(sq.prey, sq.prey_deaths) \o sq.prey_births]

enact_changes_to_births_and_deaths(sq) ==
    [sq EXCEPT
        !.predators = NotIn(sq.predators, sq.predator_deaths) \o sq.predator_births,
        !.prey = NotIn(sq.prey, sq.prey_deaths) \o sq.prey_births]

\* mutant: the lists are left in the order they are stored in
SortSquareUnsorted(sq) == sq

\* mutant: the predators are sorted like the prey, weakest first
SortSquareBothAscending(sq) ==
    [sq EXCEPT !.prey = SortAscending(@), !.predators = SortAscending(@)]

\* mutant: the prey are sorted like the predators, strongest first
SortSquareBothDescending(sq) ==
    [sq EXCEPT !.prey = SortDescending(@), !.predators = SortDescending(@)]

\* the two sorts that open determine_survivors
SortSquare(sq) ==
    [sq EXCEPT !.prey = SortAscending(@), !.predators = SortDescending(@)]

\* mutant: the scan goes on after the predator has eaten (no break)
RECURSIVE ScanPreyNoBreak(_, _, _, _)
ScanPreyNoBreak(sq, i, alive, j) ==
    IF j > Len(alive)
    THEN {[sq |-> sq, predator_ate |-> In(sq.predators[i], sq.predator_deaths)]}
    ELSE LET predator == sq.predators[i]
             prey == alive[j]
             eaten == record_predator_eating_and_reproducing(sq, predator, prey)
         IN IF predator.skill_level > prey.skill_level
            THEN ScanPreyNoBreak(eaten, i, alive, j + 1)
            ELSE IF prey.skill_level = predator.skill_level
                 THEN ScanPreyNoBreak(eaten, i, alive, j + 1)
                          \cup ScanPreyNoBreak(sq, i, alive, j + 1)
                 ELSE ScanPreyNoBreak(sq, i, alive, j + 1)

\* mutant: the coin is also flipped for a prey of higher skill than the predator
RECURSIVE ScanPreyAnyLevel(_, _, _, _)
ScanPreyAnyLevel(sq, i, alive, j) ==
    IF j > Len(alive) THEN {[sq |-> sq, predator_ate |-> FALSE]}
    ELSE LET predator == sq.predators[i]
             prey == alive[j]
             eats == [sq |-> record_predator_eating_and_reproducing(sq, predator, prey),
                      predator_ate |-> TRUE]
         IN IF predator.skill_level > prey.skill_level THEN {eats}
            ELSE {eats} \cup ScanPreyAnyLevel(sq, i, alive, j + 1)

\* The inner loop of determine_survivors for the predator at index i, from
\* position j of the list of prey that were alive when its turn began.  The
\* result is the set of outcomes over the draws of randrange(2).
RECURSIVE ScanPrey(_, _, _, _)
ScanPrey(sq, i, alive, j) ==
    IF j > Len(alive) THEN {[sq |-> sq, predator_ate |-> FALSE]}
    ELSE LET predator == sq.predators[i]
             prey == alive[j]
             eats == [sq |-> record_predator_eating_and_reproducing(sq, predator, prey),
                      predator_ate |-> TRUE]
         IN IF predator.skill_level > prey.skill_level THEN {eats}
            ELSE IF prey.skill_level = predator.skill_level
                 THEN {eats} \cup ScanPrey(sq, i, alive, j + 1)
                 ELSE ScanPrey(sq, i, alive, j + 1)

\* mutant: a predator that has not eaten loses a skill level, not a round
PredatorTurnLosingSkill(sq, i) ==
    { IF r.predator_ate THEN r.sq
      ELSE [r.sq EXCEPT !.predators[i].skill_level = @ - 1] :
      r \in ScanPrey(sq, i, NotIn(sq.prey, sq.prey_deaths), 1) }

\* one iteration of the outer loop: the scan, then the starvation countdown
PredatorTurn(sq, i) ==
    { IF r.predator_ate THEN r.sq
      ELSE [r.sq EXCEPT !.predators[i].rounds_until_starvation = @ - 1] :
      r \in ScanPrey(sq, i, NotIn(sq.prey, sq.prey_deaths), 1) }

RECURSIVE PredatorLoop(_, _)
PredatorLoop(sq, i) ==
    IF i > Len(sq.predators) THEN {sq}
    ELSE UNION { PredatorLoop(s, i + 1) : s \in PredatorTurn(sq, i) }

\* mutant: a sole prey reproduces whether or not it has been eaten
SolePreyReproducesEaten(sq) ==
    IF Len(sq.prey) = 1
    THEN record_prey_reproducing(sq, sq.prey[1])
    ELSE sq

\* mutant: the prey that is alone after the eating reproduces
SoleSurvivingPreyReproduces(sq) ==
    IF Len(NotIn(sq.prey, sq.prey_deaths)) = 1
    THEN record_prey_reproducing(sq, NotIn(sq.prey, sq.prey_deaths)[1])
    ELSE sq

\* a sole prey of the square that has not been eaten reproduces
SolePreyReproduces(sq) ==
    IF Len(sq.prey) = 1 /\ ~In(sq.prey[1], sq.prey_deaths)
    THEN record_prey_reproducing(sq, sq.prey[1])
    ELSE sq

\* mutant: a predator starves one round late
StarvedLate(predator) == predator.rounds_until_starvation < 0

\* mutant: a predator starves one round early
StarvedEarly(predator) == predator.rounds_until_starvation <= 1

\* the predator's countdown value at which it starves
Starved(predator) == predator.rounds_until_starvation = 0

\* surviving predators whose countdown reached 0 die
StarvePredators(sq) ==
    [sq EXCEPT !.predator_deaths =
        @ \o SelectSeq(NotIn(sq.predators, sq.predator_deaths), Starved)]

\* mutant: the two winning codes are exchanged
SquareWinnerExchanged(sq) ==
    LET predator_pop_change == Len(sq.predator_births) - Len(sq.predator_deaths)
        prey_pop_change == Len(sq.prey_births) - Len(sq.prey_deaths)
    IN IF predator_pop_change > prey_pop_change THEN PreyWin
       ELSE IF prey_pop_change > predator_pop_change THEN PredatorWin
       ELSE Tie

\* mutant: equal changes count as a win of the predators
SquareWinnerNoTie(sq) ==
    LET predator_pop_change == Len(sq.predator_births) - Len(sq.predator_deaths)
        prey_pop_change == Len(sq.prey_births) - Len(sq.prey_deaths)
    IN IF predator_pop_change >= prey_pop_change THEN PredatorWin
       ELSE IF prey_pop_change > predator_pop_change THEN PreyWin
       ELSE Tie

\* the integer returned by determine_survivors
SquareWinner(sq) ==
    LET predator_pop_change == Len(sq.predator_births) - Len(sq.predator_deaths)
        prey_pop_change == Len(sq.prey_births) - Len(sq.prey_deaths)
    IN IF predator_pop_change > prey_pop_change THEN PredatorWin
       ELSE IF prey_pop_change > predator_pop_change THEN PreyWin
       ELSE Tie

\* determine_survivors: every square it can leave behind, over the random draws
determine_survivors(sq) ==
    { enact_changes_to_births_and_deaths(StarvePredators(SolePreyReproduces(s))) :
      s \in PredatorLoop(SortSquare(sq), 1) }

(***************************************************************************)
(* BoardModel                                                              *)
(***************************************************************************)
Positions(board_length) == (0..(board_length - 1)) \X (0..(board_length - 1))

\* the k-th square visited by `for column in self.board: for square in column`
SquareAt(board_length, k) == <<(k - 1) \div board_length, (k - 1) % board_length>>

population_cap(s) == (s.board_length * s.board_length) * 4

\* levels of the default starting animals, as the while loop of create_animals adds them
RECURSIVE DefaultLevels(_, _)
DefaultLevels(curr_level, num_pieces) ==
    IF curr_level > 8 THEN <<>>
    ELSE [k \in 1..num_pieces |-> curr_level]
         \o DefaultLevels(curr_level + 1,
                          IF curr_level < 5 THEN num_pieces + 1 ELSE num_pieces - 1)

\* create_animals: the starting pool, or the assertion that fails.  The cut
\* for a board of one square rebinds two local names and leaves `animals` as
\* it was.
create_animals(s) ==
    IF s.customized_starting_animals = "off"
    THEN LET levels == DefaultLevels(2, 1)
         IN [raised |-> "none",
             animals |-> << [k \in 1..Len(levels) |->
                                PredatorModel(k, levels[k], 1, s.rounds_until_starvation)],
                            [k \in 1..Len(levels) |-> PreyModel(k, levels[k], 1)] >>]
    ELSE IF /\ s.predator_starting_level >= 0
            /\ s.prey_starting_level >= 0
            /\ 0 <= s.num_initial_predators
            /\ s.num_initial_predators <= population_cap(s)
            /\ 0 <= s.num_initial_prey
            /\ s.num_initial_prey <= population_cap(s)
         THEN [raised |-> "none",
               animals |-> << [k \in 1..s.num_initial_predators |->
                                  PredatorModel(k, s.predator_starting_level, 0,
                                                s.rounds_until_starvation)],
                              [k \in 1..s.num_initial_prey |->
                                  PreyModel(k, s.prey_starting_level, 0)] >>]
         ELSE [raised |-> "AssertionError", animals |-> << <<>>, <<>> >>]

RECURSIVE SumOf(_, _)
SumOf(list, field) ==
    IF list = <<>> THEN 0
    ELSE list[1][field] + SumOf(Tail(list), field)

\* round(total / count, 1) in tenths: Python rounds a tie to the even digit
RoundToTenths(total, count) ==
    LET q == (10 * total) \div count
        r == (10 * total) % count
    IN IF 2 * r < count THEN q
       ELSE IF 2 * r > count THEN q + 1
       ELSE IF q % 2 = 0 THEN q ELSE q + 1

\* calculate_average_levels; called only with both lists non-empty
calculate_average_levels(surv) ==
    << RoundToTenths(SumOf(surv[1], "skill_level"), Len(surv[1])),
       RoundToTenths(SumOf(surv[2], "skill_level"), Len(surv[2])) >>

calculate_average_hunger_level(surv) ==
    << RoundToTenths(SumOf(surv[1], "rounds_until_starvation"), Len(surv[1])) >>

\* the division by len(predators) or len(prey) that the two averages make
AveragesRaise(surv) == Len(surv[1]) = 0 \/ Len(surv[2]) = 0

\* mutant: the round goes to the larger population, not to the larger gain
RoundWinnerByTotals(previous, totals) ==
    IF totals[1] > totals[2] THEN "predator"
    ELSE IF totals[2] > totals[1] THEN "prey"
    ELSE "tie"

\* the winner branch of calculate_total_populations
RoundWinner(previous, totals) ==
    LET predator_population_gain == totals[1] - previous[1]
        prey_population_gain == totals[2] - previous[2]
    IN IF predator_population_gain > prey_population_gain THEN "predator"
       ELSE IF prey_population_gain > predator_population_gain THEN "prey"
       ELSE "tie"

\* mutant: the cut keeps the end of the sorted pool, the lowest levels
CutToCapLowest(list, cap) ==
    LET sorted == SortDescending(list)
    IN IF Len(list) > cap THEN SubSeq(sorted, Len(list) - cap + 1, Len(list)) ELSE sorted

\* mutant: a pool that has reached the cap is cut to one below it
CutToCapBelowCap(list, cap) ==
    LET sorted == SortDescending(list)
    IN IF Len(list) >= cap /\ cap > 0 THEN SubSeq(sorted, 1, cap - 1) ELSE sorted

\* mutant: the pool is sorted and never cut
CutToCapSortOnly(list, cap) == SortDescending(list)

\* the population-cap cut of modify_board_survivors on one side's pool
CutToCap(list, cap) ==
    LET sorted == SortDescending(list)
    IN IF Len(list) > cap THEN SubSeq(sorted, 1, cap) ELSE sorted

\* the loop of modify_board_survivors over the squares from the k-th on: the
\* boards and pools it can end with, over the random draws of the squares
RECURSIVE ResolveSquares(_, _, _, _)
ResolveSquares(b, surv, k, board_length) ==
    IF k > board_length * board_length THEN {[board |-> b, survivors |-> surv]}
    ELSE LET pos == SquareAt(board_length, k)
         IN UNION { ResolveSquares(
                        [b EXCEPT ![pos] = [s EXCEPT !.winner = <<SquareWinner(s)>>]],
                        << surv[1] \o s.predators, surv[2] \o s.prey >>,
                        k + 1, board_length) :
                    s \in determine_survivors(b[pos]) }

\* mutant: the population check of set_board is not made (assertions disabled)
set_board_unchecked(surv, s) == TRUE

\* the two assertions that open set_board
set_board_precondition(surv, s) ==
    /\ 0 <= Len(surv[1]) /\ Len(surv[1]) <= population_cap(s)
    /\ 0 <= Len(surv[2]) /\ Len(surv[2]) <= population_cap(s)

\* mutant: a square counts as full only when it holds more than four
SquareFullOffByOne(b, pos, side) == Len(b[pos][side]) > SquareCap

\* the while condition of set_board: the drawn square takes no more of the side
SquareFull(b, pos, side) == Len(b[pos][side]) >= SquareCap

\* the loops of set_board for one side: the k-th animal of the pool goes to
\* the square place[k] that the re-rolls ended on
RECURSIVE PlaceAll(_, _, _, _, _)
PlaceAll(b, side, list, place, k) ==
    IF k > Len(list) THEN b
    ELSE PlaceAll([b EXCEPT ![place[k]][side] = Append(@, list[k])],
                  side, list, place, k + 1)

\* a placement the re-roll loops of set_board can end on: a square is chosen
\* for an animal only while it holds fewer than SquareCap of its side
RECURSIVE CanPlace(_, _, _, _, _)
CanPlace(b, side, list, place, k) ==
    IF k > Len(list) THEN TRUE
    ELSE /\ ~SquareFull(b, place[k], side)
         /\ CanPlace([b EXCEPT ![place[k]][side] = Append(@, list[k])],
                     side, list, place, k + 1)

\* the pool with every animal's identity renamed to its position
Renumbered(list) == [k \in 1..Len(list) |-> [list[k] EXCEPT !.id = k]]

\* mutant: equal tallies go to the last key
find_winner_last_key(wins) ==
    IF wins.predator > wins.prey THEN "predator" ELSE "prey"

\* max(self.round_wins, key=...): the first key holding the greatest tally
find_winner(wins) ==
    IF wins.predator >= wins.prey THEN "predator" ELSE "prey"

(***************************************************************************)
(* The round cycle on a BoardModel: BoardModel(settings), then per round    *)
(* set_board, modify_board_survivors and, unless it was the last round,     *)
(* clear_board (controller.py: start_game_button_command, scatter_pawns,    *)
(* start_round_button_command, finish_round_button_command).                *)
(***************************************************************************)
StartCounts(board_length) ==
    IF board_length = 1 THEN 0..(board_length * board_length * 4) ELSE 0..MaxInitial

GameSettings ==
    { [board_length |-> bl, customized_starting_animals |-> "on",
       num_initial_predators |-> np, predator_starting_level |-> pl,
       num_initial_prey |-> nq, prey_starting_level |-> ql,
       rounds_until_starvation |-> d, num_rounds |-> MaxRounds] :
      bl \in 1..MaxBoardLength, np \in 0..(MaxBoardLength * MaxBoardLength * 4),
      pl \in 0..MaxLevel, nq \in 0..(MaxBoardLength * MaxBoardLength * 4),
      ql \in 0..MaxLevel, d \in 1..MaxBudget }

Init ==
    /\ settings \in { s \in GameSettings :
                        /\ s.num_initial_predators \in StartCounts(s.board_length)
                        /\ s.num_initial_prey \in StartCounts(s.board_length) }
    /\ board = <<>>
    /\ survivors = << <<>>, <<>> >>
    /\ current_round = 0
    /\ round_winner = "unset"
    /\ round_wins = [predator |-> 0, prey |-> 0]
    /\ total_populations = <<>>
    /\ previous_total_populations = <<>>
    /\ average_levels = <<>>
    /\ average_hunger_level = <<>>
    /\ phase = "config"
    /\ raised = "none"
    /\ returned = "none"
    /\ pre_board = <<>>
    /\ roll = <<>>
    /\ ControllerIdle
    /\ HelpersIdle

\* BoardModel(settings), then the first round is numbered (controller.py line 170)
StartGame ==
    /\ phase = "config"
    /\ LET created == create_animals(settings)
       IN IF created.raised # "none"
          THEN /\ raised' = created.raised
               /\ phase' = "error"
               /\ UNCHANGED <<board, survivors, current_round, total_populations,
                              previous_total_populations, average_levels,
                              average_hunger_level>>
          ELSE IF AveragesRaise(created.animals)
          THEN /\ raised' = "ZeroDivisionError"
               /\ phase' = "error"
               /\ UNCHANGED <<board, survivors, current_round, total_populations,
                              previous_total_populations, average_levels,
                              average_hunger_level>>
          ELSE /\ survivors' = created.animals
               /\ total_populations' = <<Len(created.animals[1]), Len(created.animals[2])>>
               /\ previous_total_populations' = total_populations'
               /\ average_levels' = calculate_average_levels(created.animals)
               /\ average_hunger_level' = calculate_average_hunger_level(created.animals)
               /\ board' = [pos \in Positions(settings.board_length) |->
                               SquareModel(pos, settings.rounds_until_starvation)]
               /\ current_round' = 0 + 1
               /\ phase' = "scatter"
               /\ raised' = "none"
    /\ UNCHANGED <<settings, round_winner, round_wins, returned, pre_board, roll>>
    /\ UNCHANGED <<controller_vars, helper_vars>>

\* set_board
SetBoard ==
    /\ phase = "scatter"
    /\ roll = <<>>
    /\ IF ~set_board_precondition(survivors, settings)
       THEN /\ raised' = "AssertionError"
            /\ phase' = "error"
            /\ UNCHANGED board
       ELSE /\ \E predator_place \in [1..Len(survivors[1]) -> Positions(settings.board_length)],
                  prey_place \in [1..Len(survivors[2]) -> Positions(settings.board_length)] :
                  /\ CanPlace(board, "predators", survivors[1], predator_place, 1)
                  /\ CanPlace(board, "prey", survivors[2], prey_place, 1)
                  /\ board' = PlaceAll(PlaceAll(board, "predators", survivors[1],
                                                predator_place, 1),
                                       "prey", survivors[2], prey_place, 1)
            /\ phase' = "round"
            /\ raised' = "none"
    /\ UNCHANGED <<settings, survivors, current_round, round_winner, round_wins,
                   total_populations, previous_total_populations, average_levels,
                   average_hunger_level, returned, pre_board, roll>>
    /\ UNCHANGED <<controller_vars, helper_vars>>

\* mutant: the populations are counted before the pool is cut to the cap
ModifyBoardSurvivorsCountingBeforeCut ==
    /\ phase = "round"
    /\ \E res \in ResolveSquares(board, << <<>>, <<>> >>, 1, settings.board_length) :
          LET actual_survivors ==
                  << CutToCap(res.survivors[1], population_cap(settings)),
                     CutToCap(res.survivors[2], population_cap(settings)) >>
              totals == <<Len(res.survivors[1]), Len(res.survivors[2])>>
              winner == RoundWinner(total_populations, totals)
          IN /\ board' = res.board
             /\ survivors' = actual_survivors
             /\ previous_total_populations' = total_populations
             /\ total_populations' = totals
             /\ round_winner' = winner
             /\ round_wins' = IF winner = "tie" THEN round_wins
                              ELSE [round_wins EXCEPT ![winner] = @ + 1]
             /\ IF AveragesRaise(actual_survivors)
                THEN /\ raised' = "ZeroDivisionError"
                     /\ phase' = "error"
                     /\ UNCHANGED <<average_levels, average_hunger_level>>
                ELSE /\ average_levels' = calculate_average_levels(actual_survivors)
                     /\ average_hunger_level' = calculate_average_hunger_level(actual_survivors)
                     /\ raised' = "none"
                     /\ phase' = "results"
    /\ pre_board' = board
    /\ UNCHANGED <<settings, current_round, returned, roll>>
    /\ UNCHANGED <<controller_vars, helper_vars>>

\* modify_board_survivors
ModifyBoardSurvivors ==
    /\ phase = "round"
    /\ \E res \in ResolveSquares(board, << <<>>, <<>> >>, 1, settings.board_length) :
          LET actual_survivors ==
                  << CutToCap(res.survivors[1], population_cap(settings)),
                     CutToCap(res.survivors[2], population_cap(settings)) >>
              totals == <<Len(actual_survivors[1]), Len(actual_survivors[2])>>
              winner == RoundWinner(total_populations, totals)
          IN /\ board' = res.board
             /\ survivors' = actual_survivors
             /\ previous_total_populations' = total_populations
             /\ total_populations' = totals
             /\ round_winner' = winner
             /\ round_wins' = IF winner = "tie" THEN round_wins
                              ELSE [round_wins EXCEPT ![winner] = @ + 1]
             /\ IF AveragesRaise(actual_survivors)
                THEN /\ raised' = "ZeroDivisionError"
                     /\ phase' = "error"
                     /\ UNCHANGED <<average_levels, average_hunger_level>>
                ELSE /\ average_levels' = calculate_average_levels(actual_survivors)
                     /\ average_hunger_level' = calculate_average_hunger_level(actual_survivors)
                     /\ raised' = "none"
                     /\ phase' = "results"
    /\ pre_board' = board
    /\ UNCHANGED <<settings, current_round, returned, roll>>
    /\ UNCHANGED <<controller_vars, helper_vars>>

\* mutant: clear_board counts the round on the board only, not in the squares
ClearBoardCountingBoardOnly ==
    /\ phase = "results"
    /\ current_round # settings.num_rounds
    /\ current_round' = current_round + 1
    /\ board' = [pos \in DOMAIN board |->
                    [board[pos] EXCEPT !.predators = <<>>, !.prey = <<>>,
                                       !.predator_births = <<>>, !.predator_deaths = <<>>,
                                       !.prey_births = <<>>, !.prey_deaths = <<>>]]
    /\ survivors' = <<Renumbered(survivors[1]), Renumbered(survivors[2])>>
    /\ phase' = "scatter"
    /\ UNCHANGED <<settings, round_winner, round_wins, total_populations,
                   previous_total_populations, average_levels, average_hunger_level,
                   raised, returned, pre_board, roll>>
    /\ UNCHANGED <<controller_vars, helper_vars>>

\* mutant: clear_board does not count the round
ClearBoardNotCounting ==
    /\ phase = "results"
    /\ current_round # settings.num_rounds
    /\ current_round' = current_round
    /\ board' = [pos \in DOMAIN board |->
                    [board[pos] EXCEPT !.predators = <<>>, !.prey = <<>>,
                                       !.predator_births = <<>>, !.predator_deaths = <<>>,
                                       !.prey_births = <<>>, !.prey_deaths = <<>>]]
    /\ survivors' = <<Renumbered(survivors[1]), Renumbered(survivors[2])>>
    /\ phase' = "scatter"
    /\ UNCHANGED <<settings, round_winner, round_wins, total_populations,
                   previous_total_populations, average_levels, average_hunger_level,
                   raised, returned, pre_board, roll>>
    /\ UNCHANGED <<controller_vars, helper_vars>>

\* mutant: clear_board does not reset the birth lists
ClearBoardKeepingBirths ==
    /\ phase = "results"
    /\ current_round # settings.num_rounds
    /\ current_round' = current_round + 1
    /\ board' = [pos \in DOMAIN board |->
                    [board[pos] EXCEPT !.current_round = @ + 1,
                                       !.predators = <<>>, !.prey = <<>>,
                                       !.predator_deaths = <<>>, !.prey_deaths = <<>>]]
    /\ survivors' = <<Renumbered(survivors[1]), Renumbered(survivors[2])>>
    /\ phase' = "scatter"
    /\ UNCHANGED <<settings, round_winner, round_wins, total_populations,
                   previous_total_populations, average_levels, average_hunger_level,
                   raised, returned, pre_board, roll>>
    /\ UNCHANGED <<controller_vars, helper_vars>>

\* mutant: clear_board leaves the animals in the squares
ClearBoardKeepingAnimals ==
    /\ phase = "results"
    /\ current_round # settings.num_rounds
    /\ current_round' = current_round + 1
    /\ board' = [pos \in DOMAIN board |->
                    [board[pos] EXCEPT !.current_round = @ + 1,
                                       !.predator_births = <<>>, !.predator_deaths = <<>>,
                                       !.prey_births = <<>>, !.prey_deaths = <<>>]]
    /\ survivors' = survivors
    /\ phase' = "scatter"
    /\ UNCHANGED <<settings, round_winner, round_wins, total_populations,
                   previous_total_populations, average_levels, average_hunger_level,
                   raised, returned, pre_board, roll>>
    /\ UNCHANGED <<controller_vars, helper_vars>>

\* clear_board, called when the round was not the last one
ClearBoard ==
    /\ phase = "results"
    /\ current_round # settings.num_rounds
    /\ current_round' = current_round + 1
    /\ board' = [pos \in DOMAIN board |->
                    [board[pos] EXCEPT !.current_round = @ + 1,
                                       !.predators = <<>>, !.prey = <<>>,
                                       !.predator_births = <<>>, !.predator_deaths = <<>>,
                                       !.prey_births = <<>>, !.prey_deaths = <<>>]]
    /\ survivors' = <<Renumbered(survivors[1]), Renumbered(survivors[2])>>
    /\ phase' = "scatter"
    /\ UNCHANGED <<settings, round_winner, round_wins, total_populations,
                   previous_total_populations, average_levels, average_hunger_level,
                   raised, returned, pre_board, roll>>
    /\ UNCHANGED <<controller_vars, helper_vars>>

\* find_winner, called after the last round
FindWinner ==
    /\ phase = "results"
    /\ current_round = settings.num_rounds
    /\ returned' = find_winner(round_wins)
    /\ phase' = "over"
    /\ UNCHANGED <<settings, board, survivors, current_round, round_winner, round_wins,
                   total_populations, previous_total_populations, average_levels,
                   average_hunger_level, raised, pre_board, roll>>
    /\ UNCHANGED <<controller_vars, helper_vars>>

Next == StartGame \/ SetBoard \/ ModifyBoardSurvivors \/ ClearBoard \/ FindWinner

Spec == Init /\ [][Next]_vars

(***************************************************************************)
(* set_board step by step, for the termination of its re-roll loops: the    *)
(* assertions and the first draw, one re-draw per iteration of a while      *)
(* loop, and the append that ends an iteration of a for loop together with  *)
(* the draw that opens the next one.  `roll` holds the for loop that is      *)
(* running, the index of its animal in the pool and the square last drawn.  *)
(***************************************************************************)
\* more animals than one square takes: with the board of two squares a side
\* and MaxScatter starting animals a draw can land on a full square
MaxScatter == 6

SideIndex(side) == IF side = "predators" THEN 1 ELSE 2

\* the iteration that follows the k-th one of the loop over `side`; <<>> when
\* both loops are done
NextIteration(surv, side, k) ==
    IF side = "predators" /\ k < Len(surv[1]) THEN <<"predators", k + 1>>
    ELSE IF side = "predators" /\ Len(surv[2]) > 0 THEN <<"prey", 1>>
    ELSE IF side = "prey" /\ k < Len(surv[2]) THEN <<"prey", k + 1>>
    ELSE <<>>

\* the step into the next iteration with its first draw, or out of set_board
Advance(side, k) ==
    LET following == NextIteration(survivors, side, k)
    IN IF following = <<>>
       THEN /\ roll' = <<>>
            /\ phase' = "round"
       ELSE /\ \E pos \in Positions(settings.board_length) :
                  roll' = [side |-> following[1], k |-> following[2], square |-> pos]
            /\ phase' = "scatter"

\* set_board is called: the assertions, then the first draw
SetBoardEnter ==
    /\ phase = "scatter"
    /\ roll = <<>>
    /\ IF ~set_board_precondition(survivors, settings)
       THEN /\ raised' = "AssertionError"
            /\ phase' = "error"
            /\ roll' = <<>>
       ELSE /\ Advance("predators", 0)
            /\ raised' = "none"
    /\ UNCHANGED <<settings, board, survivors, current_round, round_winner, round_wins,
                   total_populations, previous_total_populations, average_levels,
                   average_hunger_level, returned, pre_board>>
    /\ UNCHANGED <<controller_vars, helper_vars>>

\* one iteration of a while loop: the drawn square is full, another is drawn
Reroll(pos) ==
    /\ phase = "scatter"
    /\ roll # <<>>
    /\ SquareFull(board, roll.square, roll.side)
    /\ pos \in Positions(settings.board_length)
    /\ roll' = [roll EXCEPT !.square = pos]
    /\ UNCHANGED <<settings, board, survivors, current_round, round_winner, round_wins,
                   total_populations, previous_total_populations, average_levels,
                   average_hunger_level, phase, raised, returned, pre_board>>
    /\ UNCHANGED <<controller_vars, helper_vars>>

\* the while loop ends: the animal is appended to the drawn square
Place ==
    /\ phase = "scatter"
    /\ roll # <<>>
    /\ ~SquareFull(board, roll.square, roll.side)
    /\ board' = [board EXCEPT ![roll.square][roll.side] =
                     Append(@, survivors[SideIndex(roll.side)][roll.k])]
    /\ Advance(roll.side, roll.k)
    /\ UNCHANGED <<settings, survivors, current_round, round_winner, round_wins,
                   total_populations, previous_total_populations, average_levels,
                   average_hunger_level, raised, returned, pre_board>>
    /\ UNCHANGED <<controller_vars, helper_vars>>

\* the starting animals of the games that are scattered step by step: the
\* default animals on a board of one square, customized ones otherwise; on
\* larger boards one side starts with at most one animal and both at level 0
ScatterSettings ==
    { [board_length |-> bl, customized_starting_animals |-> c,
       num_initial_predators |-> np, predator_starting_level |-> pl,
       num_initial_prey |-> nq, prey_starting_level |-> ql,
       rounds_until_starvation |-> d,
       num_rounds |-> IF bl = 1 THEN MaxRounds ELSE 1] :
      bl \in 1..MaxBoardLength, c \in {"on", "off"},
      np \in 0..MaxScatter, pl \in 0..MaxLevel,
      nq \in 0..MaxScatter, ql \in 0..MaxLevel, d \in 1..MaxBudget }

ScatterInit ==
    /\ settings \in { s \in ScatterSettings :
                        /\ s.customized_starting_animals = "off" =>
                               /\ s.board_length = 1
                               /\ s.num_initial_predators = 0 /\ s.num_initial_prey = 0
                               /\ s.predator_starting_level = 0 /\ s.prey_starting_level = 0
                        /\ s.board_length = 1 =>
                               /\ s.num_initial_predators <= SquareCap + 1
                               /\ s.num_initial_prey <= SquareCap + 1
                        /\ s.board_length > 1 =>
                               /\ s.num_initial_predators + s.num_initial_prey <= MaxScatter
                               /\ s.num_initial_predators <= 1 \/ s.num_initial_prey <= 1
                               /\ s.predator_starting_level = 0 /\ s.prey_starting_level = 0 }
    /\ board = <<>>
    /\ survivors = << <<>>, <<>> >>
    /\ current_round = 0
    /\ round_winner = "unset"
    /\ round_wins = [predator |-> 0, prey |-> 0]
    /\ total_populations = <<>>
    /\ previous_total_populations = <<>>
    /\ average_levels = <<>>
    /\ average_hunger_level = <<>>
    /\ phase = "config"
    /\ raised = "none"
    /\ returned = "none"
    /\ pre_board = <<>>
    /\ roll = <<>>
    /\ ControllerIdle
    /\ HelpersIdle

ScatterNext ==
    \/ StartGame
    \/ SetBoardEnter
    \/ \E pos \in Positions(MaxBoardLength) : Reroll(pos)
    \/ Place
    \/ ModifyBoardSurvivors
    \/ ClearBoard
    \/ FindWinner

\* set_board runs on once it is called, and each square keeps being drawn
ScatterSpec ==
    /\ ScatterInit
    /\ [][ScatterNext]_vars
    /\ WF_vars(Place)
    /\ \A pos \in Positions(MaxBoardLength) : SF_vars(Reroll(pos))

(***************************************************************************)
(* BoardModel(settings) alone, over settings inside and outside the          *)
(* documented preconditions: board lengths from 0 and one above the largest  *)
(* board, both kinds of starting animals, levels from -1, and populations up *)
(* to one above the cap of the board.                                        *)
(***************************************************************************)
\* the board sizes the game offers (settings min_board_length, max_board_length)
min_board_length == 1
max_board_length == 8

\* starting populations tried on a board: the small ones, the cap and one above
InitialCounts(board_length) ==
    (0..(SquareCap + 1))
        \cup {board_length * board_length * 4, board_length * board_length * 4 + 1}

\* the board lengths tried: one below the smallest board, the boards of the
\* other specifications, and one above the largest board
InitialBoardLengths ==
    ((min_board_length - 1)..MaxBoardLength) \cup {max_board_length + 1}

InitializeSettings(board_lengths) ==
    UNION { { [board_length |-> bl, customized_starting_animals |-> c,
               num_initial_predators |-> np, predator_starting_level |-> pl,
               num_initial_prey |-> nq, prey_starting_level |-> ql,
               rounds_until_starvation |-> d, num_rounds |-> MaxRounds] :
              c \in {"on", "off"},
              np \in InitialCounts(bl), pl \in (-1)..MaxLevel,
              nq \in InitialCounts(bl), ql \in (-1)..MaxLevel, d \in 1..MaxBudget } :
            bl \in board_lengths }

InitializeInit ==
    /\ settings \in InitializeSettings(InitialBoardLengths)
    /\ board = <<>>
    /\ survivors = << <<>>, <<>> >>
    /\ current_round = 0
    /\ round_winner = "unset"
    /\ round_wins = [predator |-> 0, prey |-> 0]
    /\ total_populations = <<>>
    /\ previous_total_populations = <<>>
    /\ average_levels = <<>>
    /\ average_hunger_level = <<>>
    /\ phase = "config"
    /\ raised = "none"
    /\ returned = "none"
    /\ pre_board = <<>>
    /\ roll = <<>>
    /\ ControllerIdle
    /\ HelpersIdle

InitializeNext == StartGame

InitializeSpec == InitializeInit /\ [][InitializeNext]_vars

(***************************************************************************)
(* The unit harness of tester_files/test_determine_survivors.py: a square   *)
(* is built, its predators and prey lists are assigned, and                 *)
(* determine_survivors is called on it once.                                *)
(***************************************************************************)
Origin == <<0, 0>>

HarnessSettings ==
    [board_length |-> 1, customized_starting_animals |-> "on",
     num_initial_predators |-> 0, predator_starting_level |-> 0,
     num_initial_prey |-> 0, prey_starting_level |-> 0,
     rounds_until_starvation |-> MaxBudget, num_rounds |-> 1]

SquareInit ==
    /\ settings = HarnessSettings
    /\ \E np \in 0..SquareCap, nq \in 0..SquareCap :
          \E ps \in [1..np -> (0..MaxLevel) \X (1..MaxBudget)], qs \in [1..nq -> 0..MaxLevel] :
             board = [pos \in {Origin} |->
                         [SquareModel(Origin, MaxBudget) EXCEPT
                            !.predators = [k \in 1..np |-> PredatorModel(k, ps[k][1], 1, ps[k][2])],
                            !.prey = [k \in 1..nq |-> PreyModel(k, qs[k], 1)]]]
    /\ survivors = << <<>>, <<>> >>
    /\ current_round = 0
    /\ round_winner = "unset"
    /\ round_wins = [predator |-> 0, prey |-> 0]
    /\ total_populations = <<>>
    /\ previous_total_populations = <<>>
    /\ average_levels = <<>>
    /\ average_hunger_level = <<>>
    /\ phase = "round"
    /\ raised = "none"
    /\ returned = "none"
    /\ pre_board = <<>>
    /\ roll = <<>>
    /\ ControllerIdle
    /\ HelpersIdle

\* square.determine_survivors()
DetermineSurvivors ==
    /\ phase = "round"
    /\ \E s \in determine_survivors(board[Origin]) :
          /\ board' = [board EXCEPT ![Origin] = s]
          /\ returned' = SquareWinner(s)
    /\ pre_board' = board
    /\ phase' = "results"
    /\ UNCHANGED <<settings, survivors, current_round, round_winner, round_wins,
                   total_populations, previous_total_populations, average_levels,
                   average_hunger_level, raised, roll>>
    /\ UNCHANGED <<controller_vars, helper_vars>>

SquareNext == DetermineSurvivors

SquareSpec == SquareInit /\ [][SquareNext]_vars

(***************************************************************************)
(* CurrentSettings.update_settings.  The settings are a dictionary of        *)
(* categories (all_settings_dict) and one attribute per setting (settings). *)
(* The calls are those of tester_files/test_model_classes.py: a category     *)
(* and a setting that exist, and a key that does not.                        *)
(***************************************************************************)
\* settings.update_settings((first, second, value))
update_settings(dict, attrs, first, second, value) ==
    LET inner_keys == UNION { DOMAIN dict[category] : category \in DOMAIN dict }
    IN IF first \notin DOMAIN dict
       THEN [dict |-> dict, attrs |-> attrs, raised |-> "SettingNotFound"]
       ELSE IF second \notin inner_keys
       THEN [dict |-> dict, attrs |-> attrs, raised |-> "SettingNotFound"]
       ELSE [dict |-> [dict EXCEPT ![first] = (second :> value) @@ @],
             attrs |-> (second :> value) @@ attrs,
             raised |-> "none"]

\* the integer settings of each category that the model reads
CategoryFields ==
    [predator |-> {"num_initial_predators", "predator_starting_level",
                   "rounds_until_starvation"},
     prey |-> {"num_initial_prey", "prey_starting_level"},
     board |-> {"board_length"},
     change_of_rounds |-> {"num_rounds"}]

FirstKeys == {"predator", "board", "non-existent-key"}
SecondKeys == {"num_initial_predators", "board_length", "non-existent-key"}
SettingValues == 1..(MaxBoardLength + 1)

\* CurrentSettings(): every setting of the dictionary is also an attribute
SettingsInit ==
    /\ \E value \in SettingValues :
          /\ all_settings_dict = [category \in DOMAIN CategoryFields |->
                                     [field \in CategoryFields[category] |-> value]]
          /\ settings = [field \in UNION { CategoryFields[category] :
                                             category \in DOMAIN CategoryFields } |-> value]
    /\ board = <<>>
    /\ survivors = << <<>>, <<>> >>
    /\ current_round = 0
    /\ round_winner = "unset"
    /\ round_wins = [predator |-> 0, prey |-> 0]
    /\ total_populations = <<>>
    /\ previous_total_populations = <<>>
    /\ average_levels = <<>>
    /\ average_hunger_level = <<>>
    /\ phase = "config"
    /\ raised = "none"
    /\ returned = "none"
    /\ pre_board = <<>>
    /\ roll = <<>>
    /\ next_game_command = "unset"
    /\ timers = <<>>
    /\ shown = {}
    /\ calls = <<>>
    /\ HelpersIdle

UpdateSettings(first, second, value) ==
    /\ LET updated == update_settings(all_settings_dict, settings, first, second, value)
       IN /\ all_settings_dict' = updated.dict
          /\ settings' = updated.attrs
          /\ raised' = updated.raised
    /\ UNCHANGED <<board, survivors, current_round, round_winner, round_wins,
                   total_populations, previous_total_populations, average_levels,
                   average_hunger_level, phase, returned, pre_board, roll,
                   next_game_command, timers, shown, calls, helper_vars>>

SettingsNext ==
    \E first \in FirstKeys, second \in SecondKeys, value \in SettingValues :
        UpdateSettings(first, second, value)

SettingsSpec == SettingsInit /\ [][SettingsNext]_vars

(***************************************************************************)
(* The game loop of the controller (controller.py, WidgetCommands).  Its    *)
(* handlers run one at a time on the Tk event loop: a button press or a      *)
(* callback handed to view.after.  `timers` holds the callbacks not yet run  *)
(* in the order they fire (a handler schedules its callbacks with delays     *)
(* that do not decrease, after everything that is already due); `listed`     *)
(* says whether the identifier of the callback is in                         *)
(* view.board_frame.scheduled_tasks.  Only the callbacks that change the     *)
(* state of the game loop are kept: the handlers, the assignments of         *)
(* next_game_command, the two list clearings and the gridding of the Start   *)
(* Round and Finish Round buttons; a handler ungrids its own button as it    *)
(* runs (it schedules that with the delay 0 it finds when it was pressed).   *)
(* The BoardModel methods a handler calls are recorded in `calls`, and       *)
(* clear_board also counts the round; what the methods do to the board and   *)
(* the pool is the subject of Spec.  An exception ends the handler - and the *)
(* handlers that called it - where it is raised; Tk reports it and goes on.  *)
(***************************************************************************)
\* the game loop makes at most this many calls on one model
CallsCap == 3 * MaxRounds + 2

Timer(command, argument, listed) ==
    [command |-> command, argument |-> argument, listed |-> listed]

\* the game loop's state as one value, for the handlers that call each other
LoopState ==
    [settings |-> settings, all_settings_dict |-> all_settings_dict,
     current_round |-> current_round, phase |-> phase, raised |-> raised,
     next_game_command |-> next_game_command, timers |-> timers,
     shown |-> shown, calls |-> calls]

Becomes(st) ==
    /\ settings' = st.settings
    /\ all_settings_dict' = st.all_settings_dict
    /\ current_round' = st.current_round
    /\ phase' = st.phase
    /\ raised' = st.raised
    /\ next_game_command' = st.next_game_command
    /\ timers' = st.timers
    /\ shown' = st.shown
    /\ calls' = st.calls
    /\ UNCHANGED <<board, survivors, round_winner, round_wins, total_populations,
                   previous_total_populations, average_levels, average_hunger_level,
                   returned, pre_board, roll, helper_vars>>

Raise(st, exception) == [st EXCEPT !.raised = exception]

\* self.model.<method>(): WidgetCommands.model is deleted by Reset Game
CallModel(st, method) ==
    IF st.phase = "config"
    THEN Raise(st, "AttributeError")
    ELSE [st EXCEPT !.calls = Append(@, method),
                    !.current_round = IF method = "clear_board" THEN @ + 1 ELSE @]

RECURSIVE scatter_pawns(_)
RECURSIVE start_round_button_command(_)
RECURSIVE finish_round_button_command(_)

\* a handler calling the next one directly (autofinish); the depth of such
\* calls is limited by the interpreter
CallDirectly(st, command) ==
    IF Len(st.calls) >= CallsCap
    THEN Raise(st, "RecursionError")
    ELSE IF command = "scatter_pawns" THEN scatter_pawns(st)
    ELSE IF command = "start_round_button_command" THEN start_round_button_command(st)
    ELSE finish_round_button_command(st)

scatter_pawns(st) ==
    LET set == CallModel(st, "set_board")
    IN IF set.raised # "none" THEN set
       ELSE IF set.settings.pause_between_rounds = "on"
       THEN [set EXCEPT !.timers = @ \o
                << Timer("setattr", "start_round_button_command", FALSE),
                   Timer("grid", "start_round", TRUE) >>]
       ELSE IF set.settings.autofinish_game = "off"
       THEN [set EXCEPT !.timers = @ \o
                << Timer("start_round_button_command", "", TRUE),
                   Timer("setattr", "finish_round_button_command", FALSE) >>]
       ELSE CallDirectly(set, "start_round_button_command")

start_round_button_command(st) ==
    LET hidden == IF st.settings.autofinish_game = "off"
                  THEN [st EXCEPT !.shown = @ \ {"start_round"}]
                  ELSE st
        resolved == CallModel(hidden, "modify_board_survivors")
    IN IF resolved.raised # "none" THEN resolved
       ELSE IF resolved.settings.pause_between_rounds = "on"
       THEN [resolved EXCEPT !.timers = @ \o
                << Timer("grid", "finish_round", TRUE),
                   Timer("setattr", "finish_round_button_command", FALSE) >>]
       ELSE IF resolved.settings.autofinish_game = "off"
       THEN [resolved EXCEPT !.timers = @ \o
                << Timer("finish_round_button_command", "", TRUE),
                   Timer("setattr", "scatter_pawns", FALSE) >>]
       ELSE CallDirectly(resolved, "finish_round_button_command")

finish_round_button_command(st) ==
    LET hidden == IF st.settings.autofinish_game = "off"
                  THEN [st EXCEPT !.shown = @ \ {"finish_round"}]
                  ELSE st
    IN IF hidden.phase = "config"
       THEN Raise(hidden, "AttributeError")
       ELSE IF hidden.current_round = hidden.settings.num_rounds
       THEN \* self.model.game_winner (autofinish off) and
            \* self.initial_levels_to_populations are read; neither is ever bound
            Raise(CallModel(hidden, "find_winner"), "AttributeError")
       ELSE LET cleared == CallModel(hidden, "clear_board")
            IN IF cleared.settings.autofinish_game = "off"
               THEN [cleared EXCEPT !.timers = @ \o
                        << Timer("scheduled_tasks.clear", "", FALSE),
                           Timer("scheduled_labels.clear", "", FALSE),
                           Timer("scatter_pawns", "", TRUE),
                           Timer("setattr", "start_round_button_command", FALSE) >>]
               ELSE CallDirectly(cleared, "scatter_pawns")

\* cancel_all_tasks_and_visuals: the callbacks whose identifier is in
\* scheduled_tasks are cancelled
cancel_all_tasks_and_visuals(st) ==
    [st EXCEPT !.timers = SelectSeq(@, LAMBDA timer : ~timer.listed)]

\* a callback handed to view.after runs
RunTimer(st, timer) ==
    IF timer.command = "setattr"
    THEN [st EXCEPT !.next_game_command = timer.argument]
    ELSE IF timer.command = "grid"
    THEN [st EXCEPT !.shown = @ \cup {timer.argument}]
    ELSE IF timer.command = "scheduled_tasks.clear"
    THEN [st EXCEPT !.timers = [k \in 1..Len(@) |-> [@[k] EXCEPT !.listed = FALSE]]]
    ELSE IF timer.command = "scheduled_labels.clear"
    THEN st
    ELSE IF timer.command = "scatter_pawns" THEN scatter_pawns(st)
    ELSE IF timer.command = "start_round_button_command"
    THEN start_round_button_command(st)
    ELSE finish_round_button_command(st)

ControllerSettings ==
    { [num_rounds |-> n, pause_between_rounds |-> pause, autofinish_game |-> "off"] :
      n \in 1..MaxRounds, pause \in {"on", "off"} }

\* The loop is entered as start_game_button_command enters it at lines
\* 162 to 178: a model is attached, the round is numbered 1, the Reset Game
\* and Autofinish Game buttons are gridded, scatter_pawns() is called and
\* next_game_command is assigned.  (Line 161 is StartGameButton's.)
ControllerInit ==
    /\ \E chosen \in ControllerSettings :
          LET entered ==
                scatter_pawns([settings |-> chosen,
                               all_settings_dict |-> [change_of_rounds |-> chosen],
                               current_round |-> 0 + 1, phase |-> "game",
                               raised |-> "none", next_game_command |-> "unset",
                               timers |-> <<>>,
                               shown |-> {"reset_game", "autofinish_game"},
                               calls |-> <<>>])
          IN /\ settings = entered.settings
             /\ all_settings_dict = entered.all_settings_dict
             /\ current_round = entered.current_round
             /\ phase = entered.phase
             /\ raised = entered.raised
             /\ next_game_command = "start_round_button_command"
             /\ timers = entered.timers
             /\ shown = entered.shown
             /\ calls = entered.calls
    /\ HelpersIdle
    /\ board = <<>>
    /\ survivors = << <<>>, <<>> >>
    /\ round_winner = "unset"
    /\ round_wins = [predator |-> 0, prey |-> 0]
    /\ total_populations = <<>>
    /\ previous_total_populations = <<>>
    /\ average_levels = <<>>
    /\ average_hunger_level = <<>>
    /\ returned = "none"
    /\ pre_board = <<>>
    /\ roll = <<>>

\* Start Game: a new BoardModel is attached, then line 161 reads its
\* levels_to_populations, which BoardModel(settings) has not assigned
StartGameButton ==
    /\ "start_game" \in shown
    /\ Becomes([LoopState EXCEPT !.phase = "game", !.current_round = 0,
                                 !.calls = <<>>, !.raised = "AttributeError"])

\* the first callback that is due runs
RunCallback ==
    /\ timers # <<>>
    /\ Len(calls) < CallsCap
    /\ Becomes(RunTimer([LoopState EXCEPT !.timers = Tail(@), !.raised = "none"],
                        Head(timers)))

StartRoundButton ==
    /\ "start_round" \in shown
    /\ Len(calls) < CallsCap
    /\ Becomes(start_round_button_command([LoopState EXCEPT !.raised = "none"]))

FinishRoundButton ==
    /\ "finish_round" \in shown
    /\ Len(calls) < CallsCap
    /\ Becomes(finish_round_button_command([LoopState EXCEPT !.raised = "none"]))

\* Reset Game: del self.model, cancel_all_tasks_and_visuals, change_game_buttons_shown('reset')
ResetGameButton ==
    /\ "reset_game" \in shown
    /\ IF phase = "config"
       THEN Becomes(Raise(LoopState, "AttributeError"))
       ELSE Becomes([cancel_all_tasks_and_visuals(LoopState) EXCEPT
                        !.phase = "config", !.raised = "none",
                        !.shown = {"start_game"}])

\* Autofinish Game: the two settings are updated, the listed callbacks are
\* cancelled and next_game_command is called; the lines after the call run
\* when it returns, and the first of them that reads the model reads
\* self.model.game_winner
AutofinishGameButton ==
    /\ "autofinish_game" \in shown
    /\ Len(calls) < CallsCap
    /\ LET paused == update_settings(all_settings_dict, settings,
                                     "change_of_rounds", "pause_between_rounds", "off")
           automatic == update_settings(paused.dict, paused.attrs,
                                        "change_of_rounds", "autofinish_game", "on")
           cancelled == cancel_all_tasks_and_visuals(
                            [LoopState EXCEPT !.settings = automatic.attrs,
                                              !.all_settings_dict = automatic.dict,
                                              !.raised = "none"])
           finished == IF next_game_command = "unset"
                       THEN Raise(cancelled, "AttributeError")
                       ELSE CallDirectly(cancelled, next_game_command)
       IN IF finished.raised # "none"
          THEN Becomes(finished)
          ELSE Becomes([finished EXCEPT
                           !.shown = @ \ {"autofinish_game", "start_round", "finish_round"},
                           !.raised = "AttributeError"])

ControllerNext ==
    \/ StartGameButton
    \/ RunCallback
    \/ StartRoundButton
    \/ FinishRoundButton
    \/ ResetGameButton
    \/ AutofinishGameButton

ControllerSpec == ControllerInit /\ [][ControllerNext]_vars

(***************************************************************************)
(* The helper functions of src/model_helpers.py.  A matrix is a list of    *)
(* columns, each column the list of its squares from top to bottom; Python *)
(* index i is position i + 1 of the sequence.                              *)
(***************************************************************************)
\* argument matrices have at most MaxSide columns of at most MaxSide squares
MaxSide == 3
\* the squares of a rectangular matrix hold 0..MaxEntry
MaxEntry == 1
\* matrices of outcome codes have at most MaxOutcomeSide columns
MaxOutcomeSide == 3
\* assert 2 <= num_columns <= 8
SmallestSide == 2
LargestSide == 8

\* while row < board_length: append column[row] to list inner_list_i
RECURSIVE DiagonalRowsPrepending(_, _, _, _, _)
DiagonalRowsPrepending(column, row, inner_list_i, board_length, diagonal_matrix) ==
    IF row < board_length
    THEN DiagonalRowsPrepending(column, row + 1, inner_list_i + 1, board_length,
                      [diagonal_matrix EXCEPT
                          ![inner_list_i + 1] = <<column[row + 1]>> \o @])
    ELSE diagonal_matrix

RECURSIVE DiagonalRows(_, _, _, _, _)
DiagonalRows(column, row, inner_list_i, board_length, diagonal_matrix) ==
    IF row < board_length
    THEN DiagonalRows(column, row + 1, inner_list_i + 1, board_length,
                      [diagonal_matrix EXCEPT
                          ![inner_list_i + 1] = Append(@, column[row + 1])])
    ELSE diagonal_matrix

\* for x, column in enumerate(rectangular_matrix), from column x on
RECURSIVE DiagonalColumns(_, _, _, _)
DiagonalColumns(matrix, x, board_length, diagonal_matrix) ==
    IF x < Len(matrix)
    THEN DiagonalColumns(matrix, x + 1, board_length,
                         DiagonalRows(matrix[x + 1], 0, x, board_length, diagonal_matrix))
    ELSE diagonal_matrix

produce_diagonal_matrix(matrix) ==
    LET num_columns == Len(matrix)
        num_inner_lists == num_columns * 2 - 1
    IN IF ~(SmallestSide <= num_columns /\ num_columns <= LargestSide)
       THEN [raised |-> "AssertionError", returned |-> "none"]
       ELSE IF \E x \in 1..num_columns : num_columns # Len(matrix[x])
       THEN [raised |-> "AssertionError", returned |-> "none"]
       ELSE [raised |-> "none",
             returned |-> DiagonalColumns(matrix, 0, num_columns,
                                          [i \in 1..num_inner_lists |-> <<>>])]

\* for outcome in column: winner_tracker += outcome
RECURSIVE TrackColumn(_, _)
TrackColumn(column, winner_tracker) ==
    IF column = <<>>
    THEN winner_tracker
    ELSE TrackColumn(Tail(column), winner_tracker + Head(column))

\* for column in array_of_outcomes
RECURSIVE TrackColumns(_, _)
TrackColumns(columns, winner_tracker) ==
    IF columns = <<>>
    THEN winner_tracker
    ELSE TrackColumns(Tail(columns), TrackColumn(Head(columns), winner_tracker))

determine_round_winner_tie_to_prey(outcomes) ==
    LET winner_tracker == TrackColumns(outcomes, 0)
    IN IF winner_tracker >= 0 THEN 3
       ELSE IF winner_tracker < 0 THEN 2
       ELSE 4

determine_round_winner(outcomes) ==
    LET winner_tracker == TrackColumns(outcomes, 0)
    IN IF winner_tracker > 0 THEN 3
       ELSE IF winner_tracker < 0 THEN 2
       ELSE 4

\* the lists of at most `side` squares, and the lists of at most `side` of them
Columns(side, entry) == UNION { [1..len -> 0..entry] : len \in 0..side }
Matrices(side, entry) == UNION { [1..len -> Columns(side, entry)] : len \in 0..side }

\* the side x side matrix whose squares all differ
Numbered(side) == [x \in 1..side |-> [r \in 1..side |-> (x - 1) * side + (r - 1)]]

\* the side x side matrices of square outcome codes, sides 0..side
OutcomeMatrices(side) ==
    UNION { [1..len -> [1..len -> {PredatorWin, Tie, PreyWin}]] : len \in 0..side }

\* nothing but the argument of a helper function exists
NoGame ==
    /\ settings = <<>>
    /\ board = <<>>
    /\ survivors = << <<>>, <<>> >>
    /\ current_round = 0
    /\ round_winner = "unset"
    /\ round_wins = [predator |-> 0, prey |-> 0]
    /\ total_populations = <<>>
    /\ previous_total_populations = <<>>
    /\ average_levels = <<>>
    /\ average_hunger_level = <<>>
    /\ phase = "argument"
    /\ raised = "none"
    /\ returned = "none"
    /\ pre_board = <<>>
    /\ roll = <<>>
    /\ ControllerIdle

DiagonalInit ==
    /\ rectangular_matrix \in Matrices(MaxSide, MaxEntry)
                                  \cup { Numbered(side) : side \in SmallestSide..(LargestSide + 1) }
    /\ array_of_outcomes = <<>>
    /\ NoGame

ProduceDiagonalMatrix ==
    /\ phase = "argument"
    /\ LET call == produce_diagonal_matrix(rectangular_matrix)
       IN /\ returned' = call.returned
          /\ raised' = call.raised
    /\ phase' = "called"
    /\ UNCHANGED <<settings, board, survivors, current_round, round_winner, round_wins,
                   total_populations, previous_total_populations, average_levels,
                   average_hunger_level, pre_board, roll, controller_vars, helper_vars>>

DiagonalNext == ProduceDiagonalMatrix

DiagonalSpec == DiagonalInit /\ [][DiagonalNext]_vars

WinnerInit ==
    /\ array_of_outcomes \in OutcomeMatrices(MaxOutcomeSide)
    /\ rectangular_matrix = <<>>
    /\ NoGame

DetermineRoundWinner ==
    /\ phase = "argument"
    /\ returned' = determine_round_winner(array_of_outcomes)
    /\ raised' = "none"
    /\ phase' = "called"
    /\ UNCHANGED <<settings, board, survivors, current_round, round_winner, round_wins,
                   total_populations, previous_total_populations, average_levels,
                   average_hunger_level, pre_board, roll, controller_vars, helper_vars>>

WinnerNext == DetermineRoundWinner

WinnerSpec == WinnerInit /\ [][WinnerNext]_vars

(***************************************************************************)
(* Properties.  `sq` is the harness square after the call, `pre` the same   *)
(* square as the call found it.  Eating events are read off the lists the   *)
(* call leaves behind: the k-th event appended predator_deaths[k],          *)
(* prey_deaths[k] and predator_births[2k-1], predator_births[2k]; the       *)
(* starved predators and a reproducing sole prey are appended after them.   *)
(***************************************************************************)
sq == board[Origin]
pre == pre_board[Origin]
Resolved == phase = "results"

Ids(list) == { list[k].id : k \in 1..Len(list) }
Distinct(list) == Cardinality(Ids(list)) = Len(list)

\* number of prey that were eaten: the prey deaths that are not a reproducing parent
NumEaten(s) == Len(s.prey_deaths) - (Len(s.prey_births) \div 2)

\* how many eating events have the animal as their predator
EatCount(s, predator) ==
    Cardinality({ k \in 1..NumEaten(s) : s.predator_deaths[k].id = predator.id })

\* C1: one call of determine_survivors started with empty birth and death lists
\* conserves both sides (after + deaths = before + births), records no animal
\* dead twice, and every animal that left the square is in the death list.
C1_Conservation ==
    Resolved =>
        /\ Len(sq.predators) + Len(sq.predator_deaths)
               = Len(pre.predators) + Len(sq.predator_births)
        /\ Len(sq.prey) + Len(sq.prey_deaths) = Len(pre.prey) + Len(sq.prey_births)
        /\ Distinct(sq.predator_deaths)
        /\ Distinct(sq.prey_deaths)
        /\ \A k \in 1..Len(pre.predators) :
              In(pre.predators[k], sq.predators) \/ In(pre.predators[k], sq.predator_deaths)
        /\ \A k \in 1..Len(pre.prey) :
              In(pre.prey[k], sq.prey) \/ In(pre.prey[k], sq.prey_deaths)

\* a resolution with an eating event and a starved predator besides
C1_Witness ==
    /\ Resolved
    /\ NumEaten(sq) >= 1
    /\ Len(sq.predator_deaths) > NumEaten(sq)

\* the predator's skill is above that of every prey the square started with
Dominant(predator) ==
    /\ pre.prey # <<>>
    /\ \A j \in 1..Len(pre.prey) : predator.skill_level > pre.prey[j].skill_level

\* the eating event of the predator at index i of the starting list took the
\* weakest prey that no earlier event had taken
AteWeakestAvailable(i) ==
    \A k \in 1..NumEaten(sq) :
        sq.predator_deaths[k].id = pre.predators[i].id =>
            \A j \in 1..Len(pre.prey) :
                \/ \E m \in 1..(k - 1) : sq.prey_deaths[m].id = pre.prey[j].id
                \/ sq.prey_deaths[k].skill_level <= pre.prey[j].skill_level

\* C2 as stated: a predator whose skill is above every prey of its square eats
\* exactly one prey, the weakest available, and never zero.
C2_Original ==
    Resolved =>
        \A i \in 1..Len(pre.predators) :
            Dominant(pre.predators[i]) =>
                /\ EatCount(sq, pre.predators[i]) = 1
                /\ AteWeakestAvailable(i)

\* place of the predator at index i in the order the predators eat: higher
\* skill first, and among equal skill the one stored earlier
EatingRank(i) ==
    1 + Cardinality({ m \in 1..Len(pre.predators) :
            \/ pre.predators[m].skill_level > pre.predators[i].skill_level
            \/ /\ pre.predators[m].skill_level = pre.predators[i].skill_level
               /\ m < i })

\* C2 amended: such a predator eats exactly one prey, the weakest not yet
\* eaten, when fewer predators eat before it than the square has prey, and
\* eats none otherwise (every prey is gone when its turn comes).
C2_DominantPredatorEats ==
    Resolved =>
        \A i \in 1..Len(pre.predators) :
            Dominant(pre.predators[i]) =>
                IF EatingRank(i) <= Len(pre.prey)
                THEN /\ EatCount(sq, pre.predators[i]) = 1
                     /\ AteWeakestAvailable(i)
                ELSE EatCount(sq, pre.predators[i]) = 0

\* two dominant predators and prey of two levels: both eat
C2_Witness ==
    /\ Resolved
    /\ Len(pre.prey) >= 2
    /\ pre.prey[1].skill_level > pre.prey[2].skill_level
    /\ \E i, m \in 1..Len(pre.predators) :
          /\ i # m
          /\ Dominant(pre.predators[i])
          /\ Dominant(pre.predators[m])
          /\ EatCount(sq, pre.predators[i]) = 1
          /\ EatCount(sq, pre.predators[m]) = 1

\* number of animals of one side held by the squares from the k-th on
RECURSIVE HeldFrom(_, _)
HeldFrom(side, k) ==
    IF k > settings.board_length * settings.board_length THEN 0
    ELSE Len(board[SquareAt(settings.board_length, k)][side]) + HeldFrom(side, k + 1)

\* modify_board_survivors has run on the board and nothing has changed it since
AfterResolution ==
    \/ phase \in {"results", "over"}
    \/ phase = "error" /\ board # <<>> /\ pre_board # <<>>

\* C3: after modify_board_survivors the pool holds at most board_length^2 * 4
\* predators and at most board_length^2 * 4 prey, in every round.
C3_Capacity ==
    AfterResolution =>
        /\ Len(survivors[1]) <= settings.board_length * settings.board_length * 4
        /\ Len(survivors[2]) <= settings.board_length * settings.board_length * 4

\* a resolution that left more predators in the squares than the cap allows
C3_Witness ==
    /\ phase = "results"
    /\ HeldFrom("predators", 1) > settings.board_length * settings.board_length * 4
    /\ Len(survivors[1]) = settings.board_length * settings.board_length * 4

NonNegative(list) == \A k \in 1..Len(list) : list[k].skill_level >= 0

\* the two offspring of every parent of level 0 have level 0 or 1
ZeroParents(parents, births, count) ==
    \A k \in 1..count :
        parents[k].skill_level = 0 =>
            /\ births[2 * k - 1].skill_level \in {0, 1}
            /\ births[2 * k].skill_level \in {0, 1}

\* C5: every animal in the squares, in the birth lists and in the pool has
\* skill_level >= 0 in every round, and the offspring of a parent of level 0
\* have level 0 or 1.
C5_ZeroFloor ==
    /\ NonNegative(survivors[1])
    /\ NonNegative(survivors[2])
    /\ \A pos \in DOMAIN board :
          LET s == board[pos]
          IN /\ NonNegative(s.predators)
             /\ NonNegative(s.prey)
             /\ NonNegative(s.predator_births)
             /\ NonNegative(s.prey_births)
             /\ ZeroParents(s.predator_deaths, s.predator_births, NumEaten(s))
             /\ Len(s.prey_births) > 0 =>
                   ZeroParents(<<s.prey_deaths[Len(s.prey_deaths)]>>, s.prey_births, 1)

\* in the second round a predator of level 0 ate
C5_Witness ==
    /\ current_round = 2
    /\ \E pos \in DOMAIN board :
          \E k \in 1..NumEaten(board[pos]) :
              board[pos].predator_deaths[k].skill_level = 0

\* C6: when predator P eats prey E, both leave the square and exactly two
\* predators are added, of level P+1 and P-1 (P when P is 0), born in the
\* square's round + 1 and with the square's default starvation budget.
C6_EatingEvent ==
    Resolved =>
        /\ Len(sq.predator_births) = 2 * NumEaten(sq)
        /\ \A k \in 1..NumEaten(sq) :
              LET P == sq.predator_deaths[k]
                  E == sq.prey_deaths[k]
                  up == sq.predator_births[2 * k - 1]
                  down == sq.predator_births[2 * k]
              IN /\ \E i \in 1..Len(pre.predators) : pre.predators[i] = P
                 /\ \E j \in 1..Len(pre.prey) : pre.prey[j] = E
                 /\ ~In(P, sq.predators)
                 /\ ~In(E, sq.prey)
                 /\ In(up, sq.predators)
                 /\ In(down, sq.predators)
                 /\ up.id # down.id
                 /\ up.skill_level = P.skill_level + 1
                 /\ down.skill_level = IF P.skill_level = 0 THEN 0 ELSE P.skill_level - 1
                 /\ up.birth_round = pre.current_round + 1
                 /\ down.birth_round = pre.current_round + 1
                 /\ up.rounds_until_starvation = pre.default_rounds_until_starvation
                 /\ down.rounds_until_starvation = pre.default_rounds_until_starvation
        /\ Len(sq.predators)
               = Len(pre.predators) - Len(sq.predator_deaths) + 2 * NumEaten(sq)

\* an eating predator whose remaining budget was below the default
C6_Witness ==
    /\ Resolved
    /\ \E k \in 1..NumEaten(sq) :
          sq.predator_deaths[k].rounds_until_starvation
              < pre.default_rounds_until_starvation

\* C7: prey are born in a resolution exactly when the square started with one
\* prey and it was not eaten; that prey is then replaced by two offspring of
\* level +1 and -1 (0 for a parent of level 0).  A square that started with
\* 2..4 prey has no prey births, also when one prey is left after the eating.
C7_LonePreyReproduces ==
    Resolved =>
        /\ Len(sq.prey_births) > 0
               <=> (Len(pre.prey) = 1 /\ Len(sq.predator_births) = 0)
        /\ Len(pre.prey) >= 2 => sq.prey_births = <<>>
        /\ Len(sq.prey_births) > 0 =>
              LET parent == pre.prey[1]
              IN /\ Len(sq.prey) = 2
                 /\ sq.prey = sq.prey_births
                 /\ In(parent, sq.prey_deaths)
                 /\ sq.prey[1].skill_level = parent.skill_level + 1
                 /\ sq.prey[2].skill_level
                        = IF parent.skill_level = 0 THEN 0 ELSE parent.skill_level - 1

\* a square that started with several prey and is left with one
C7_Witness ==
    /\ Resolved
    /\ Len(pre.prey) >= 2
    /\ Len(sq.prey) = 1

\* C8: a predator that eats nothing has its rounds_until_starvation decreased
\* by exactly 1; it leaves the square exactly when the decreased value is 0,
\* and otherwise stays with the decreased value.
C8_Starvation ==
    Resolved =>
        \A i \in 1..Len(pre.predators) :
            LET before == pre.predators[i]
                decreased == [before EXCEPT !.rounds_until_starvation = @ - 1]
            IN EatCount(sq, before) = 0 =>
                  IF decreased.rounds_until_starvation = 0
                  THEN /\ ~In(before, sq.predators)
                       /\ \E k \in 1..Len(sq.predator_deaths) :
                             sq.predator_deaths[k] = decreased
                  ELSE /\ \E k \in 1..Len(sq.predators) : sq.predators[k] = decreased
                       /\ ~In(before, sq.predator_deaths)

\* one predator starved and another stayed with a decreased budget
C8_Witness ==
    /\ Resolved
    /\ \E i, m \in 1..Len(pre.predators) :
          /\ EatCount(sq, pre.predators[i]) = 0
          /\ EatCount(sq, pre.predators[m]) = 0
          /\ ~In(pre.predators[i], sq.predators)
          /\ In(pre.predators[m], sq.predators)

C10_EmptySquare ==
    (Resolved /\ pre.predators = <<>> /\ pre.prey = <<>>) =>
        /\ returned = 0
        /\ sq.predators = <<>>
        /\ sq.prey = <<>>
        /\ sq.predator_births = <<>>
        /\ sq.predator_deaths = <<>>
        /\ sq.prey_births = <<>>
        /\ sq.prey_deaths = <<>>
        /\ sq = pre

\* an empty square has been resolved
C10_Witness ==
    /\ Resolved
    /\ pre.predators = <<>>
    /\ pre.prey = <<>>

\* smaller of two numbers
Min(a, b) == IF a <= b THEN a ELSE b

\* C11: in one resolution of a square every predator eats at most one prey and
\* every prey is eaten by at most one predator, so the number of prey eaten is
\* at most min(number of predators, number of prey), however many weaker prey
\* the square holds.
C11_OnePreyPerPredator ==
    Resolved =>
        /\ \A i \in 1..Len(pre.predators) : EatCount(sq, pre.predators[i]) <= 1
        /\ \A j \in 1..Len(pre.prey) :
              Cardinality({ k \in 1..NumEaten(sq) : sq.prey_deaths[k].id = pre.prey[j].id }) <= 1
        /\ NumEaten(sq) <= Min(Len(pre.predators), Len(pre.prey))
        /\ Len(sq.predator_births) = 2 * NumEaten(sq)

\* one predator above three prey: it ate one of them and two are left
C11_Witness ==
    /\ Resolved
    /\ Len(pre.predators) = 1
    /\ Len(pre.prey) = 3
    /\ Dominant(pre.predators[1])
    /\ NumEaten(sq) = 1
    /\ Len(sq.prey) = 2

\* every predator of the starting square is below every prey of it
OutSkilled ==
    \A i \in 1..Len(pre.predators) : \A j \in 1..Len(pre.prey) :
        pre.predators[i].skill_level < pre.prey[j].skill_level

\* C12: no prey is eaten by a predator of strictly lower skill: every call of
\* the eating-event recorder meets its asserted precondition, and a square in
\* which every prey out-skills every predator has no prey eaten.
C12_NoEatingUpwards ==
    Resolved =>
        /\ \A k \in 1..NumEaten(sq) :
              /\ eating_precondition(sq.predator_deaths[k], sq.prey_deaths[k])
              /\ ~(sq.predator_deaths[k].skill_level < sq.prey_deaths[k].skill_level)
        /\ OutSkilled =>
              /\ NumEaten(sq) = 0
              /\ sq.predator_births = <<>>
              /\ \A j \in 1..Len(pre.prey) :
                    In(pre.prey[j], sq.prey) \/ Len(pre.prey) = 1

\* a predator that ate its equal while a stronger prey of the square got away
C12_Witness ==
    /\ Resolved
    /\ NumEaten(sq) = 1
    /\ sq.predator_deaths[1].skill_level = sq.prey_deaths[1].skill_level
    /\ \E j \in 1..Len(sq.prey) :
          sq.prey[j].skill_level > sq.predator_deaths[1].skill_level

\* the animal is in exactly one square of the board, as it is in the pool
InOneSquare(animal, side) ==
    /\ Cardinality({ pos \in DOMAIN board : In(animal, board[pos][side]) }) = 1
    /\ \A pos \in DOMAIN board :
          Cardinality({ m \in 1..Len(board[pos][side]) :
                          board[pos][side][m].id = animal.id }) <= 1
    /\ \E pos \in DOMAIN board : \E m \in 1..Len(board[pos][side]) :
          board[pos][side][m] = animal

\* C13: after set_board on a board of empty squares every animal of the pool
\* is in exactly one square, the squares hold no other animals, and each
\* square holds at most 4 predators and at most 4 prey.
C13_Scatter ==
    phase = "round" =>
        \A side \in {"predators", "prey"} :
            LET pool == survivors[SideIndex(side)]
            IN /\ \A k \in 1..Len(pool) : InOneSquare(pool[k], side)
               /\ HeldFrom(side, 1) = Len(pool)
               /\ \A pos \in DOMAIN board : Len(board[pos][side]) <= 4

\* five predators scattered over four squares, four of them in one square
C13_Witness ==
    /\ phase = "round"
    /\ settings.board_length = 2
    /\ Len(survivors[1]) = 5
    /\ \E pos \in DOMAIN board : Len(board[pos].predators) = 4

\* a pool holds more animals than the board has room for
OverCapacity ==
    \/ Len(survivors[1]) > settings.board_length * settings.board_length * 4
    \/ Len(survivors[2]) > settings.board_length * settings.board_length * 4

\* C14: set_board called with more than board_length^2 * 4 predators or prey
\* in the pool fails with an assertion error and has placed no animal: the
\* board is as it was.
C14_ScatterRejects ==
    [][(phase = "scatter" /\ roll = <<>> /\ OverCapacity) =>
          /\ raised' = "AssertionError"
          /\ phase' = "error"
          /\ board' = board
          /\ survivors' = survivors]_vars

\* set_board has rejected the sixteen default animals on the board of one square
C14_Witness ==
    /\ phase = "error"
    /\ raised = "AssertionError"
    /\ board # <<>>
    /\ OverCapacity
    /\ \A pos \in DOMAIN board : board[pos].predators = <<>> /\ board[pos].prey = <<>>

\* some square of the board has room for an animal of the side being placed
RoomExists ==
    \E pos \in DOMAIN board : ~SquareFull(board, pos, roll.side)

\* C15: once the assertions of set_board have passed in a game, there is a
\* square with room at every draw, and with every square drawn again and
\* again the loops place every animal and set_board ends.
C15_ScatterTerminates ==
    /\ [](roll # <<>> => RoomExists)
    /\ (roll # <<>>) ~> (phase = "round")

\* a draw that landed on a full square
C15_Witness ==
    /\ roll # <<>>
    /\ SquareFull(board, roll.square, roll.side)
    /\ RoomExists

\* the animals of one side held by the squares from the k-th on, in the order
\* modify_board_survivors collects them
RECURSIVE HeldList(_, _)
HeldList(side, k) ==
    IF k > settings.board_length * settings.board_length THEN <<>>
    ELSE board[SquareAt(settings.board_length, k)][side] \o HeldList(side, k + 1)

\* C16: when the squares are left with more animals of a side than the cap,
\* exactly cap of them are kept and every kept animal has a skill level of at
\* least that of every discarded one; a side at or below the cap loses none.
C16_Culling ==
    AfterResolution =>
        \A side \in {"predators", "prey"} :
            LET held == HeldList(side, 1)
                pool == survivors[SideIndex(side)]
                cap == settings.board_length * settings.board_length * 4
            IN /\ Distinct(pool)
               /\ \A k \in 1..Len(pool) : \E m \in 1..Len(held) : held[m] = pool[k]
               /\ IF Len(held) > cap
                  THEN /\ Len(pool) = cap
                       /\ \A m \in 1..Len(held) :
                             ~In(held[m], pool) =>
                                 \A k \in 1..Len(pool) :
                                     pool[k].skill_level >= held[m].skill_level
                  ELSE /\ Len(pool) = Len(held)
                       /\ \A m \in 1..Len(held) : In(held[m], pool)

\* a cut that discarded a predator of lower level than one it kept
C16_Witness ==
    /\ phase = "results"
    /\ LET held == HeldList("predators", 1)
       IN /\ Len(held) > settings.board_length * settings.board_length * 4
          /\ \E m \in 1..Len(held), k \in 1..Len(survivors[1]) :
                /\ ~In(held[m], survivors[1])
                /\ survivors[1][k].skill_level > held[m].skill_level

\* number of animals of the list at the level
LevelCount(list, level) ==
    Cardinality({ k \in 1..Len(list) : list[k].skill_level = level })

\* the default distribution: levels 2..8 with 1, 2, 3, 4, 3, 2, 1 animals
DefaultHistogram(list) ==
    /\ Len(list) = 16
    /\ \A level \in 2..8 :
          LevelCount(list, level) = IF level <= 5 THEN level - 1 ELSE 9 - level

\* BoardModel(settings) has returned a board
Built == phase = "scatter"

\* C17 as stated: with the default starting animals each side is created with
\* the level histogram {2:1, 3:2, 4:3, 5:4, 6:3, 7:2, 8:1}, and on a board of
\* one square each side is cut to 4 animals, so that the population check of
\* the first set_board passes.
C17_Original ==
    (Built /\ settings.customized_starting_animals = "off") =>
        IF settings.board_length = 1
        THEN /\ Len(survivors[1]) = 4
             /\ Len(survivors[2]) = 4
             /\ set_board_precondition(survivors, settings)
        ELSE /\ DefaultHistogram(survivors[1])
             /\ DefaultHistogram(survivors[2])

\* the settings meet the preconditions documented for customized starting animals
CustomizedWithinPreconditions ==
    /\ settings.customized_starting_animals = "on"
    /\ settings.board_length \in min_board_length..max_board_length
    /\ settings.predator_starting_level >= 0
    /\ settings.prey_starting_level >= 0
    /\ settings.num_initial_predators
           \in 0..(settings.board_length * settings.board_length * 4)
    /\ settings.num_initial_prey
           \in 0..(settings.board_length * settings.board_length * 4)

\* C18 as stated: with customized starting animals, levels >= 0 and counts in
\* 0..board_length^2*4, BoardModel(settings) succeeds, creates exactly the
\* configured number of animals of each side at the configured level (the
\* predators with the configured starvation budget) and computes the totals
\* and averages.
C18_Original ==
    (phase # "config" /\ CustomizedWithinPreconditions) =>
        /\ raised = "none"
        /\ Built
        /\ Len(survivors[1]) = settings.num_initial_predators
        /\ Len(survivors[2]) = settings.num_initial_prey
        /\ \A k \in 1..Len(survivors[1]) :
              /\ survivors[1][k].skill_level = settings.predator_starting_level
              /\ survivors[1][k].rounds_until_starvation = settings.rounds_until_starvation
        /\ \A k \in 1..Len(survivors[2]) :
              survivors[2][k].skill_level = settings.prey_starting_level
        /\ total_populations = <<settings.num_initial_predators, settings.num_initial_prey>>
        /\ average_levels # <<>>
        /\ average_hunger_level # <<>>

\* the number of animals per side the settings ask for
StartingPopulation(side) ==
    IF settings.customized_starting_animals = "off" THEN 16
    ELSE IF side = "predators" THEN settings.num_initial_predators
    ELSE settings.num_initial_prey

\* the settings violate a precondition of building the board
PreconditionViolated ==
    \/ settings.board_length \notin min_board_length..max_board_length
    \/ /\ settings.customized_starting_animals = "on"
       /\ settings.predator_starting_level < 0 \/ settings.prey_starting_level < 0
    \/ StartingPopulation("predators") > settings.board_length * settings.board_length * 4
    \/ StartingPopulation("prey") > settings.board_length * settings.board_length * 4

\* C19 as stated: BoardModel(settings) with a board_length outside 1..8, a
\* negative starting level or a starting population above board_length^2*4
\* raises an assertion error and builds no board.
C19_Original ==
    (phase # "config" /\ PreconditionViolated) =>
        /\ raised = "AssertionError"
        /\ phase = "error"
        /\ board = <<>>

\* C20 as stated: modify_board_survivors on a board set by set_board returns
\* without raising and leaves the totals, both average levels, the average
\* starvation budget and the round winner, also when a side is left with no
\* animal.
C20_Original ==
    AfterResolution =>
        /\ raised = "none"
        /\ phase \in {"results", "over"}
        /\ total_populations = <<Len(survivors[1]), Len(survivors[2])>>
        /\ round_winner \in {"predator", "prey", "tie"}
        /\ Len(average_levels) = 2
        /\ Len(average_hunger_level) = 1

\* number of resolutions the game has been through
Resolutions == IF AfterResolution THEN current_round
               ELSE IF current_round = 0 THEN 0 ELSE current_round - 1

\* C21: after each resolution round_winner is the side whose total (the pool
\* after the cut) gained more over the total before the resolution, 'tie' when
\* the gains are equal; exactly the winner's tally grows by one, no tally
\* changes on a tie or in any other step, and after k resolutions the two
\* tallies sum to at most k.
C21_RoundWinner ==
    /\ [](AfterResolution =>
            LET predator_gain == total_populations[1] - previous_total_populations[1]
                prey_gain == total_populations[2] - previous_total_populations[2]
            IN /\ total_populations = <<Len(survivors[1]), Len(survivors[2])>>
               /\ round_winner = "predator" <=> predator_gain > prey_gain
               /\ round_winner = "prey" <=> predator_gain < prey_gain
               /\ round_winner = "tie" <=> predator_gain = prey_gain)
    /\ [](round_wins.predator + round_wins.prey <= Resolutions)
    /\ [][IF phase = "round"
          THEN /\ previous_total_populations' = total_populations
               /\ round_wins' =
                      [predator |-> round_wins.predator
                                       + (IF round_winner' = "predator" THEN 1 ELSE 0),
                       prey |-> round_wins.prey
                                       + (IF round_winner' = "prey" THEN 1 ELSE 0)]
          ELSE round_wins' = round_wins /\ round_winner' = round_winner]_vars

\* a second round that ended in a tie after a round that had a winner
C21_Witness ==
    /\ phase = "results"
    /\ current_round = 2
    /\ round_winner = "tie"
    /\ round_wins.predator + round_wins.prey = 1
    /\ total_populations[1] # total_populations[2]

\* C22: find_winner returns the side with the strictly higher tally of round
\* wins, and 'predator', the first key of the tally, when the tallies are
\* equal, 0-0 included.
C22_FindWinner ==
    phase = "over" =>
        /\ round_wins.predator > round_wins.prey => returned = "predator"
        /\ round_wins.prey > round_wins.predator => returned = "prey"
        /\ round_wins.predator = round_wins.prey => returned = "predator"

\* a game that ended one round each
C22_Witness ==
    /\ phase = "over"
    /\ round_wins.predator = 1
    /\ round_wins.prey = 1
    /\ returned = "predator"

Anonymous(list) ==
    [k \in 1..Len(list) |-> [f \in DOMAIN list[k] \ {"id"} |-> list[k][f]]]

\* C24: clear_board leaves every square with empty predators, prey,
\* predator_births, predator_deaths, prey_births and prey_deaths and a round
\* counter one higher, and leaves the pool, the totals, the averages,
\* round_winner and the tally of round wins unchanged.
C24_ClearBoard ==
    [][(phase = "results" /\ phase' = "scatter") =>
          /\ \A pos \in DOMAIN board :
                /\ board'[pos].predators = <<>>
                /\ board'[pos].prey = <<>>
                /\ board'[pos].predator_births = <<>>
                /\ board'[pos].predator_deaths = <<>>
                /\ board'[pos].prey_births = <<>>
                /\ board'[pos].prey_deaths = <<>>
                /\ board'[pos].current_round = board[pos].current_round + 1
                /\ board'[pos].board_position = board[pos].board_position
                /\ board'[pos].default_rounds_until_starvation
                       = board[pos].default_rounds_until_starvation
          /\ DOMAIN board' = DOMAIN board
          /\ Anonymous(survivors'[1]) = Anonymous(survivors[1])
          /\ Anonymous(survivors'[2]) = Anonymous(survivors[2])
          /\ total_populations' = total_populations
          /\ previous_total_populations' = previous_total_populations
          /\ average_levels' = average_levels
          /\ average_hunger_level' = average_hunger_level
          /\ round_winner' = round_winner
          /\ round_wins' = round_wins]_vars

\* a board cleared after a round in which animals were born and died
C24_Witness ==
    /\ phase = "scatter"
    /\ current_round = 2
    /\ round_wins.predator + round_wins.prey = 1
    /\ Len(survivors[1]) > 2
    /\ \A pos \in DOMAIN board : board[pos].predators = <<>> /\ board[pos].predator_births = <<>>

\* no predator of the square has the skill level of a prey of it
NoSharedLevel(s) ==
    \A i \in 1..Len(s.predators) : \A j \in 1..Len(s.prey) :
        s.predators[i].skill_level # s.prey[j].skill_level

\* the predators as a multiset of (skill level, starvation budget)
PredatorBag(list) ==
    LET kinds == { <<list[k].skill_level, list[k].rounds_until_starvation>> :
                     k \in 1..Len(list) }
    IN [kind \in kinds |->
           Cardinality({ k \in 1..Len(list) :
               <<list[k].skill_level, list[k].rounds_until_starvation>> = kind })]

\* the prey as a multiset of skill levels
PreyBag(list) ==
    LET kinds == { list[k].skill_level : k \in 1..Len(list) }
    IN [kind \in kinds |-> LevelCount(list, kind)]

\* what a resolution leaves: the outcome code and the two multisets of survivors
Summary(s) == <<SquareWinner(s), PredatorBag(s.predators), PreyBag(s.prey)>>

\* the orders a list of n animals can be stored in
Orders(n) == { f \in [1..n -> 1..n] : \A a, b \in 1..n : f[a] = f[b] => a = b }

Reordered(list, f) == [k \in 1..Len(list) |-> list[f[k]]]

EqualSkillEqualBudget(s) ==
    \A i, m \in 1..Len(s.predators) :
        s.predators[i].skill_level = s.predators[m].skill_level =>
            s.predators[i].rounds_until_starvation = s.predators[m].rounds_until_starvation

\* the same animals stored the other way round than the resolution sorts them
StoredSorted(s) ==
    [s EXCEPT !.predators = SortAscending(@), !.prey = SortDescending(@)]

Eaten(prey) == \E k \in 1..NumEaten(sq) : sq.prey_deaths[k].id = prey.id

\* C30: after a resolution every eaten prey has a skill level of at most that
\* of every prey of the starting list that was not eaten, and of two
\* predators of different skill of which one eats, the one that eats is the
\* higher-skilled.
C30_WeakestEatenStrongestEats ==
    Resolved =>
        /\ \A j, m \in 1..Len(pre.prey) :
              (Eaten(pre.prey[j]) /\ ~Eaten(pre.prey[m])) =>
                  pre.prey[j].skill_level <= pre.prey[m].skill_level
        /\ \A i, m \in 1..Len(pre.predators) :
              (/\ pre.predators[i].skill_level # pre.predators[m].skill_level
               /\ EatCount(sq, pre.predators[i]) = 1
               /\ EatCount(sq, pre.predators[m]) = 0) =>
                  pre.predators[i].skill_level > pre.predators[m].skill_level

\* the weaker of two prey, stored last, was eaten by the stronger of two
\* predators, stored last
C30_Witness ==
    /\ Resolved
    /\ Len(pre.predators) = 2
    /\ Len(pre.prey) = 2
    /\ pre.predators[1].skill_level < pre.predators[2].skill_level
    /\ pre.prey[1].skill_level > pre.prey[2].skill_level
    /\ NumEaten(sq) = 1
    /\ Eaten(pre.prey[2])
    /\ EatCount(sq, pre.predators[2]) = 1

\* the key pair names no setting: the category does not exist, or the
\* setting is not one of the category
Misnamed(first, second) ==
    first \notin DOMAIN CategoryFields \/ second \notin CategoryFields[first]

\* C25: update_settings raises SettingNotFound when the first key is not a
\* category and when the second key is not a setting of the named category,
\* and then leaves the dictionary and the attributes as they were.
C25_Original ==
    [][\A first \in FirstKeys, second \in SecondKeys, value \in SettingValues :
          (UpdateSettings(first, second, value) /\ Misnamed(first, second)) =>
              /\ raised' = "SettingNotFound"
              /\ all_settings_dict' = all_settings_dict
              /\ settings' = settings]_vars

\* C27: when the game reaches its last round every game-end output the
\* controller reads from the model is defined: no handler that reaches
\* find_winner, and no Start Game handler (which captures the start-of-game
\* histograms), ends in an AttributeError.
C27_Original ==
    [][/\ (/\ calls' # calls
           /\ calls' # <<>>
           /\ calls'[Len(calls')] = "find_winner") => raised' = "none"
       /\ StartGameButton => raised' = "none"]_vars

\* the calls of a game of n rounds: scatter, resolve and clear for every
\* round but the last, scatter, resolve and find_winner for the last
ExpectedCalls(n) ==
    [k \in 1..(3 * n) |->
        IF k = 3 * n THEN "find_winner"
        ELSE IF k % 3 = 1 THEN "set_board"
        ELSE IF k % 3 = 2 THEN "modify_board_survivors"
        ELSE "clear_board"]

\* the calls up to the first find_winner
FirstRun ==
    LET first == CHOOSE k \in 1..Len(calls) :
                    /\ calls[k] = "find_winner"
                    /\ \A j \in 1..(k - 1) : calls[j] # "find_winner"
    IN SubSeq(calls, 1, first)

C31_StarvationBudget ==
    /\ [](\A k \in 1..Len(survivors[1]) :
             /\ survivors[1][k].rounds_until_starvation >= 1
             /\ survivors[1][k].rounds_until_starvation <= settings.rounds_until_starvation)
    /\ [][phase = "round" =>
             \A k \in 1..Len(survivors'[1]), j \in 1..Len(survivors[1]) :
                 survivors'[1][k].id = survivors[1][j].id =>
                     survivors'[1][k].rounds_until_starvation
                         <= survivors[1][j].rounds_until_starvation]_vars

\* after the second resolution the pool holds a predator that has gone one
\* round without eating and a predator with the full budget
C31_Witness ==
    /\ phase = "results"
    /\ current_round = 2
    /\ settings.rounds_until_starvation = 2
    /\ \E k, j \in 1..Len(survivors[1]) :
          /\ survivors[1][k].rounds_until_starvation = 1
          /\ survivors[1][j].rounds_until_starvation = 2

\* C32: after modify_board_survivors every animal of the pool is held by
\* exactly one square, a square holds an animal that is not in the pool only
\* if the squares were left with more animals of that side than the cap, and
\* without culling the squares and the pool hold the same animals, so the
\* population totals count what the squares hold.
C32_PoolAndSquares ==
    AfterResolution =>
        \A side \in {"predators", "prey"} :
            LET held == HeldList(side, 1)
                pool == survivors[SideIndex(side)]
                cap == settings.board_length * settings.board_length * 4
            IN /\ \A k \in 1..Len(pool) : InOneSquare(pool[k], side)
               /\ (\E m \in 1..Len(held) : ~In(held[m], pool)) => Len(held) > cap
               /\ Len(held) <= cap =>
                     /\ \A m \in 1..Len(held) :
                           \E k \in 1..Len(pool) : pool[k] = held[m]
                     /\ total_populations[SideIndex(side)] = Len(held)

\* the predators were culled, the prey were not, and a square still holds a
\* culled predator beside prey that are all in the pool
C32_Witness ==
    /\ phase = "results"
    /\ Len(survivors[2]) >= 1
    /\ HeldFrom("prey", 1) = Len(survivors[2])
    /\ \E pos \in DOMAIN board :
          /\ board[pos].prey # <<>>
          /\ \E m \in 1..Len(board[pos].predators) :
                ~In(board[pos].predators[m], survivors[1])

\* C33: once the model is built, and after every resolution, total_populations
\* is (number of predators, number of prey) of the pool, and a resolution
\* leaves in previous_total_populations the total_populations it found.
C33_Totals ==
    /\ [](board # <<>> =>
             total_populations = <<Len(survivors[1]), Len(survivors[2])>>)
    /\ [][phase = "round" => previous_total_populations' = total_populations]_vars

\* the second resolution ended with a culled side and with totals that
\* differ from the ones it found
C33_Witness ==
    /\ phase = "results"
    /\ current_round = 2
    /\ previous_total_populations # total_populations
    /\ HeldFrom("predators", 1) > Len(survivors[1])
    /\ total_populations = <<Len(survivors[1]), Len(survivors[2])>>

\* C34: resolving a square that holds at most 4 predators and at most 4 prey
\* leaves it with at most 8 predators and at most 4 prey, its prey count
\* grows only from 1 to 2, and the squares are left with at most twice the
\* population cap of predators for the pool to collect.
C34_SquareGrowth ==
    AfterResolution =>
        /\ \A pos \in DOMAIN board :
              (Len(pre_board[pos].predators) <= SquareCap
                   /\ Len(pre_board[pos].prey) <= SquareCap) =>
                  /\ Len(board[pos].predators) <= 2 * SquareCap
                  /\ Len(board[pos].prey) <= SquareCap
                  /\ Len(board[pos].prey) > Len(pre_board[pos].prey) =>
                        /\ Len(pre_board[pos].prey) = 1
                        /\ Len(board[pos].prey) = 2
        /\ HeldFrom("predators", 1)
               <= 2 * (settings.board_length * settings.board_length * 4)

\* a square of 4 predators and 4 prey in which every predator ate
C34_Witness ==
    /\ AfterResolution
    /\ \E pos \in DOMAIN board :
          /\ Len(pre_board[pos].predators) = SquareCap
          /\ Len(pre_board[pos].prey) = SquareCap
          /\ Len(board[pos].predators) = 2 * SquareCap
          /\ board[pos].prey = <<>>

\* the animal as the resolution found it, when it is one of the list
Before(animal, list) == { list[k] : k \in { m \in 1..Len(list) : list[m].id = animal.id } }

\* C35: a resolution changes neither the skill_level nor the birth_round of an
\* animal that already exists and no attribute of a prey; the one attribute
\* it changes on an existing animal is the rounds_until_starvation of a
\* predator that has not eaten.
C35_Frame ==
    Resolved =>
        /\ \A list \in {sq.predators, sq.predator_deaths} :
              \A k \in 1..Len(list) : \A old \in Before(list[k], pre.predators) :
                  /\ list[k].skill_level = old.skill_level
                  /\ list[k].birth_round = old.birth_round
                  /\ list[k].rounds_until_starvation # old.rounds_until_starvation
                         => EatCount(sq, old) = 0
        /\ \A list \in {sq.prey, sq.prey_deaths} :
              \A k \in 1..Len(list) : \A old \in Before(list[k], pre.prey) :
                  list[k] = old

\* a predator that ate, a predator that did not and is left with a smaller
\* budget, and a prey that stays in the square
C35_Witness ==
    /\ Resolved
    /\ NumEaten(sq) = 1
    /\ \E k \in 1..Len(sq.predators) : \E old \in Before(sq.predators[k], pre.predators) :
          sq.predators[k].rounds_until_starvation < old.rounds_until_starvation
    /\ \E k \in 1..Len(sq.prey) : Before(sq.prey[k], pre.prey) # {}

C37_Original ==
    /\ [](\A category \in DOMAIN all_settings_dict :
             /\ DOMAIN all_settings_dict[category] = CategoryFields[category]
             /\ \A field \in DOMAIN all_settings_dict[category] :
                   settings[field] = all_settings_dict[category][field])
    /\ [][\A first \in FirstKeys, second \in SecondKeys, value \in SettingValues :
             (UpdateSettings(first, second, value) /\ raised' = "none") =>
                 /\ \A category \in DOMAIN all_settings_dict :
                       \A field \in DOMAIN all_settings_dict[category] :
                           <<category, field>> # <<first, second>> =>
                               all_settings_dict'[category][field]
                                   = all_settings_dict[category][field]
                 /\ \A field \in DOMAIN settings :
                       field # second => settings'[field] = settings[field]]_vars

SquaresWon(outcomes, code) ==
    { square \in (1..Len(outcomes)) \X (1..Len(outcomes)) :
          outcomes[square[1]][square[2]] = code }

\* the sum of all outcome codes: every prey square adds 1, every predator square -1
SumOfOutcomes(outcomes) ==
    Cardinality(SquaresWon(outcomes, PreyWin)) - Cardinality(SquaresWon(outcomes, PredatorWin))

\* C39: for every square matrix of outcome codes determine_round_winner
\* returns 3 iff the sum of the codes is positive, 2 iff it is negative and
\* 4 iff it is zero.
C39_WinnerBySum ==
    phase = "called" =>
        /\ raised = "none"
        /\ returned = 3 <=> SumOfOutcomes(array_of_outcomes) > 0
        /\ returned = 2 <=> SumOfOutcomes(array_of_outcomes) < 0
        /\ returned = 4 <=> SumOfOutcomes(array_of_outcomes) = 0

\* a tie declared on a board where both sides won squares
C39_Witness ==
    /\ phase = "called"
    /\ returned = 4
    /\ Len(array_of_outcomes) >= 2
    /\ SquaresWon(array_of_outcomes, PreyWin) # {}
    /\ SquaresWon(array_of_outcomes, PredatorWin) # {}
    /\ SquaresWon(array_of_outcomes, Tie) # {}

IsSquare(matrix) == \A x \in 1..Len(matrix) : Len(matrix[x]) = Len(matrix)

\* the columns (from 0) that cross diagonal k (from 0) of an n x n matrix
CrossingColumns(k, n) ==
    { x \in 0..(n - 1) : k - x >= 0 /\ k - x <= n - 1 }

\* C40: on an n x n matrix with 2 <= n <= 8 produce_diagonal_matrix returns
\* 2n-1 lists, list k holding exactly the elements at column x, row k - x,
\* one per column crossing it, by increasing column; any other input fails
\* an assertion.
C40_Diagonals ==
    phase = "called" =>
        LET n == Len(rectangular_matrix)
        IN IF IsSquare(rectangular_matrix) /\ 2 <= n /\ n <= 8
           THEN /\ raised = "none"
                /\ Len(returned) = 2 * n - 1
                /\ \A k \in 0..(2 * n - 2) :
                      LET first == CHOOSE x \in CrossingColumns(k, n) :
                                       \A y \in CrossingColumns(k, n) : x <= y
                      IN /\ Len(returned[k + 1]) = Cardinality(CrossingColumns(k, n))
                         /\ \A i \in 1..Len(returned[k + 1]) :
                               returned[k + 1][i]
                                   = rectangular_matrix[first + i][k - (first + i - 1) + 1]
           ELSE raised = "AssertionError"

\* an 8 x 8 matrix of distinct elements was turned into its 15 diagonals
C40_Witness ==
    /\ phase = "called"
    /\ raised = "none"
    /\ rectangular_matrix = Numbered(LargestSide)
    /\ Len(returned) = 15

====
